---------------------------- MODULE Spec2Model ----------------------------
(***************************************************************************)
(* HierarchicalChunker of src/hierarchical_indexer.py: the five-level      *)
(* chunking of one source file.  Text is a sequence of one-character       *)
(* strings; offsets (pos, start_pos, ...) are 0-based as in the code, so   *)
(* the character at offset p of s is s[p + 1].                             *)
(***************************************************************************)
EXTENDS Integers, Sequences, FiniteSets, TLC

(***************************************************************************)
(* Character classes of Python's re module (str patterns).                 *)
(***************************************************************************)
Lower ==
  {"a","b","c","d","e","f","g","h","i","j","k","l","m",
   "n","o","p","q","r","s","t","u","v","w","x","y","z"}

Upper ==
  {"A","B","C","D","E","F","G","H","I","J","K","L","M",
   "N","O","P","Q","R","S","T","U","V","W","X","Y","Z"}

Digit == {"0","1","2","3","4","5","6","7","8","9"}

\* \w
Word == Lower \cup Upper \cup Digit \cup {"_"}

\* \s
Space == {" ", "\n", "\t", "\r", "\f"}

\* [\w:]
WordColon == Word \cup {":"}

\* [\w:,\s]
BaseList == Word \cup {":", ","} \cup Space

(***************************************************************************)
(* String primitives.                                                      *)
(***************************************************************************)
At(s, p) == s[p + 1]

\* s[a:b] for 0 <= a, b (b clipped to len(s))
Slice(s, a, b) ==
  LET e == IF b > Len(s) THEN Len(s) ELSE b
  IN  IF a >= e THEN << >> ELSE SubSeq(s, a + 1, e)

\* the literal lit occurs in s at offset p
StartsWith(s, p, lit) ==
  /\ p + Len(lit) <= Len(s)
  /\ \A k \in 1..Len(lit) : s[p + k] = lit[k]

\* the offset after the longest run of characters of C that starts at p
\* (a greedy C* from p)
RECURSIVE RunEnd(_, _, _)
RunEnd(s, p, C) ==
  IF p < Len(s) /\ At(s, p) \in C THEN RunEnd(s, p + 1, C) ELSE p

\* the offset of the first character of Stop at or after p, or len(s)
\* (a greedy [^Stop]* from p)
RECURSIVE RunUntil(_, _, _)
RunUntil(s, p, Stop) ==
  IF p < Len(s) /\ At(s, p) \notin Stop THEN RunUntil(s, p + 1, Stop) ELSE p

\* s[:p].count('\n')
CountNL(s, p) == Cardinality({k \in 1..p : s[k] = "\n"})

\* lit in s
Contains(s, lit) == \E p \in 0..(Len(s) - Len(lit)) : StartsWith(s, p, lit)

\* s.strip(): offsets of the first and one past the last non-space character
StripStart(s) == RunEnd(s, 0, Space)

RECURSIVE StripEnd(_, _)
StripEnd(s, e) ==
  IF e > 0 /\ s[e] \in Space THEN StripEnd(s, e - 1) ELSE e

Strip(s) ==
  LET a == StripStart(s)
  IN  IF a >= Len(s) THEN << >> ELSE SubSeq(s, a + 1, StripEnd(s, Len(s)))

\* s.split('\n'): always at least one element
\* (computed by halving: the pieces of s[a:b] are those of the two halves
\* with the last piece of the left half glued to the first of the right)
RECURSIVE SplitRange(_, _, _)
SplitRange(s, a, b) ==
  IF b - a = 0 THEN << << >> >>
  ELSE IF b - a = 1
       THEN (IF At(s, a) = "\n" THEN << << >>, << >> >> ELSE << << At(s, a) >> >>)
  ELSE LET mid == (a + b) \div 2
           l   == SplitRange(s, a, mid)
           r   == SplitRange(s, mid, b)
       IN  SubSeq(l, 1, Len(l) - 1) \o << l[Len(l)] \o r[1] >> \o Tail(r)

Split(s) == SplitRange(s, 0, Len(s))

\* sep.join(ls)
RECURSIVE Join(_, _)
Join(ls, sep) ==
  IF Len(ls) = 0 THEN << >>
  ELSE IF Len(ls) = 1 THEN ls[1]
  ELSE ls[1] \o sep \o Join(Tail(ls), sep)

\* ls[a:b] on a list, with Python's meaning of negative and out-of-range
\* indices
PySlice(ls, a, b) ==
  LET n  == Len(ls)
      a1 == IF a < 0 THEN (IF a + n < 0 THEN 0 ELSE a + n)
            ELSE (IF a > n THEN n ELSE a)
      b1 == IF b < 0 THEN (IF b + n < 0 THEN 0 ELSE b + n)
            ELSE (IF b > n THEN n ELSE b)
  IN  IF a1 >= b1 THEN << >> ELSE SubSeq(ls, a1 + 1, b1)

\* str(n) for n >= 0
DigitChar(d) ==
  CASE d = 0 -> "0" [] d = 1 -> "1" [] d = 2 -> "2" [] d = 3 -> "3"
    [] d = 4 -> "4" [] d = 5 -> "5" [] d = 6 -> "6" [] d = 7 -> "7"
    [] d = 8 -> "8" [] d = 9 -> "9"

RECURSIVE Str(_)
Str(n) ==
  IF n < 10 THEN << DigitChar(n) >>
  ELSE Str(n \div 10) \o << DigitChar(n % 10) >>

(***************************************************************************)
(* The compiled patterns.  A match is [ok, start, end, name]: the offsets  *)
(* m.start(), m.end() and the text of m.group(1).  Every quantifier of     *)
(* the patterns is followed by something its own class cannot match, so    *)
(* the backtracking search has one outcome per alternative; the            *)
(* alternatives are tried in the order the regex engine tries them.        *)
(***************************************************************************)
Min(S) == CHOOSE x \in S : \A y \in S : x <= y

NoMatch == [ok |-> FALSE, start |-> 0, end |-> 0, name |-> << >>]

Lit_class     == <<"c","l","a","s","s">>
Lit_struct    == <<"s","t","r","u","c","t">>
Lit_public    == <<"p","u","b","l","i","c">>
Lit_private   == <<"p","r","i","v","a","t","e">>
Lit_protected == <<"p","r","o","t","e","c","t","e","d">>
Lit_const     == <<"c","o","n","s","t">>
Lit_override  == <<"o","v","e","r","r","i","d","e">>
Lit_namespace == <<"n","a","m","e","s","p","a","c","e">>
Lit_include   == <<"#","i","n","c","l","u","d","e">>

\* (?:[\w:]+\s+) at p: the offset after it, or -1
TypeToken(s, p) ==
  LET e1 == RunEnd(s, p, WordColon)
      e2 == RunEnd(s, e1, Space)
  IN  IF e1 > p /\ e2 > e1 THEN e2 ELSE -1

\* (\w+)\s*\([^)]*\)\s*(?:const)?\s*(?:override)?\s*\{ at j
SignatureAt(s, i, j) ==
  LET n1 == RunEnd(s, j, Word)
      q  == RunEnd(s, n1, Space)
      r  == RunUntil(s, q + 1, {")"})
      t1 == RunEnd(s, r + 1, Space)
      t2 == IF StartsWith(s, t1, Lit_const) THEN t1 + Len(Lit_const) ELSE t1
      t3 == RunEnd(s, t2, Space)
      t4 == IF StartsWith(s, t3, Lit_override) THEN t3 + Len(Lit_override) ELSE t3
      t5 == RunEnd(s, t4, Space)
  IN  IF /\ n1 > j
         /\ q < Len(s) /\ At(s, q) = "("
         /\ r < Len(s)
         /\ t5 < Len(s) /\ At(s, t5) = "{"
      THEN [ok |-> TRUE, start |-> i, end |-> t5 + 1, name |-> Slice(s, j, n1)]
      ELSE NoMatch

\* FUNCTION_PATTERN.match at offset i
FUNCTION_PATTERN_At(s, i) ==
  LET j1 == TypeToken(s, i)
      j2 == IF j1 >= 0 THEN TypeToken(s, j1) ELSE -1
      m2 == IF j2 >= 0 THEN SignatureAt(s, i, j2) ELSE NoMatch
      m1 == IF j1 >= 0 THEN SignatureAt(s, i, j1) ELSE NoMatch
  IN  IF m2.ok THEN m2
      ELSE IF m1.ok THEN m1
      ELSE SignatureAt(s, i, i)

\* finditer tries every offset from left to right: the next match is the one
\* at the least offset that has one
\* the next match of FUNCTION_PATTERN.finditer at or after offset from
FUNCTION_PATTERN(s, from) ==
  LET hits == {i \in from..(Len(s) - 1) :
                 At(s, i) \in WordColon /\ FUNCTION_PATTERN_At(s, i).ok}
  IN  IF hits = {} THEN NoMatch ELSE FUNCTION_PATTERN_At(s, Min(hits))

\* CLASS_PATTERN.match at offset i
CLASS_PATTERN_At(s, i) ==
  LET a == IF StartsWith(s, i, Lit_class) THEN i + Len(Lit_class)
           ELSE IF StartsWith(s, i, Lit_struct) THEN i + Len(Lit_struct)
           ELSE -1
      b == RunEnd(s, a, Space)
      c == RunEnd(s, b, Word)
      d == RunEnd(s, c, Space)
      \* (?:\s*:\s*(?:public|private|protected)\s+[\w:,\s]+)?
      e == RunEnd(s, d + 1, Space)
      f == IF StartsWith(s, e, Lit_public) THEN e + Len(Lit_public)
           ELSE IF StartsWith(s, e, Lit_private) THEN e + Len(Lit_private)
           ELSE IF StartsWith(s, e, Lit_protected) THEN e + Len(Lit_protected)
           ELSE -1
      g == RunEnd(s, f, BaseList)
      withBase == /\ d < Len(s) /\ At(s, d) = ":"
                  /\ f >= 0
                  /\ f < Len(s) /\ At(s, f) \in Space
                  /\ g - f >= 2
                  /\ g < Len(s) /\ At(s, g) = "{"
  IN  IF a < 0 \/ b = a \/ c = b THEN NoMatch
      ELSE IF withBase
           THEN [ok |-> TRUE, start |-> i, end |-> g + 1, name |-> Slice(s, b, c)]
      ELSE IF d < Len(s) /\ At(s, d) = "{"
           THEN [ok |-> TRUE, start |-> i, end |-> d + 1, name |-> Slice(s, b, c)]
      ELSE NoMatch

\* the next match of CLASS_PATTERN.finditer at or after offset from
CLASS_PATTERN(s, from) ==
  LET hits == {i \in from..(Len(s) - 1) : CLASS_PATTERN_At(s, i).ok}
  IN  IF hits = {} THEN NoMatch ELSE CLASS_PATTERN_At(s, Min(hits))

\* NAMESPACE_PATTERN.match at offset i: namespace\s+(\w+)\s*\{
NAMESPACE_PATTERN_At(s, i) ==
  LET a == i + Len(Lit_namespace)
      b == RunEnd(s, a, Space)
      c == RunEnd(s, b, Word)
      d == RunEnd(s, c, Space)
  IN  IF /\ StartsWith(s, i, Lit_namespace)
         /\ b > a /\ c > b
         /\ d < Len(s) /\ At(s, d) = "{"
      THEN [ok |-> TRUE, start |-> i, end |-> d + 1, name |-> Slice(s, b, c)]
      ELSE NoMatch

NAMESPACE_PATTERN(s, from) ==
  LET hits == {i \in from..(Len(s) - 1) : NAMESPACE_PATTERN_At(s, i).ok}
  IN  IF hits = {} THEN NoMatch ELSE NAMESPACE_PATTERN_At(s, Min(hits))

\* INCLUDE_PATTERN.match at offset i: #include\s+[<"]([^>"]+)[>"]
INCLUDE_PATTERN_At(s, i) ==
  LET a == i + Len(Lit_include)
      b == RunEnd(s, a, Space)
      c == RunUntil(s, b + 1, {">", "\""})
  IN  IF /\ StartsWith(s, i, Lit_include)
         /\ b > a
         /\ b < Len(s) /\ At(s, b) \in {"<", "\""}
         /\ c > b + 1
         /\ c < Len(s)
      THEN [ok |-> TRUE, start |-> i, end |-> c + 1, name |-> Slice(s, b + 1, c)]
      ELSE NoMatch

INCLUDE_PATTERN(s, from) ==
  LET hits == {i \in from..(Len(s) - 1) : INCLUDE_PATTERN_At(s, i).ok}
  IN  IF hits = {} THEN NoMatch ELSE INCLUDE_PATTERN_At(s, Min(hits))

(***************************************************************************)
(* Literal text of the f-strings.                                          *)
(***************************************************************************)
Lit_classes == <<" ","c","l","a","s","s","e","s">>
Lit_no_classes == <<"n","o"," ","c","l","a","s","s","e","s">>
Lit_functions == <<" ","f","u","n","c","t","i","o","n","s">>
Lit_no_functions == <<"n","o"," ","f","u","n","c","t","i","o","n","s">>
Lit_colon_sp == <<":"," ">>
Lit_comma_sp == <<","," ">>
Lit_sp_paren == <<" ","(">>
Lit_close_paren == <<")">>
Lit_gt == <<">">>
Lit_underscore == <<"_">>
Lit_newline == <<"\n">>
Lit_int_main == <<"i","n","t"," ","m","a","i","n","(">>
Lit_void_main == <<"v","o","i","d"," ","m","a","i","n","(">>
Lit_slashes == <<"/","/">>
Lit_slash_star == <<"/","*">>
Lit_star == <<"*">>
Lit_open_brace == <<"{">>
Lit_close_brace == <<"}">>
Lit_includes_hdr == <<"\n","/","/"," ","I","n","c","l","u","d","e","s",":">>
Lit_include_open == <<"#","i","n","c","l","u","d","e"," ","<">>
Lit_namespaces_hdr == <<"\n","/","/"," ","N","a","m","e","s","p","a","c","e","s",":"," ">>
Lit_classes_hdr == <<"/","/"," ","C","l","a","s","s","e","s",":"," ">>
Lit_functions_hdr == <<"/","/"," ","F","u","n","c","t","i","o","n","s",":"," ">>
Lit_total == <<" ","t","o","t","a","l">>
Lit_public_colon == <<"p","u","b","l","i","c",":">>
Lit_private_colon == <<"p","r","i","v","a","t","e",":">>
Lit_protected_colon == <<"p","r","o","t","e","c","t","e","d",":">>
Lit_L0 == <<"_","L","0">>
Lit_L1 == <<"_","L","1">>
Lit_L2 == <<"_","L","2">>
Lit_L3 == <<"_","L","3","_">>
Lit_L4 == <<"_","L","4","_">>
Lit_L4_block == <<"_","L","4","_","b","l","o","c","k","_">>

(***************************************************************************)
(* hashlib.md5(key).hexdigest(): 32 hex digits, taken to be free of        *)
(* collisions, so a digest is represented by the key it was computed from. *)
(* An id is a digest followed by a (possibly empty) suffix.                *)
(***************************************************************************)
md5(key) == [digest_of |-> key]

ChunkId(key, suffix) == [md5 |-> md5(key), suffix |-> suffix]

\* ls[:n]
Take(ls, n) == IF Len(ls) <= n THEN ls ELSE SubSeq(ls, 1, n)

\* Path.name: the text after the last "/"
RECURSIVE LastSlash(_, _)
LastSlash(path, e) ==
  IF e > 0 /\ path[e] # "/" THEN LastSlash(path, e - 1) ELSE e

PathName(path) == Slice(path, LastSlash(path, Len(path)), Len(path))

(***************************************************************************)
(* extract_metadata                                                        *)
(***************************************************************************)
RECURSIVE ClassNames(_, _)
ClassNames(s, from) ==
  LET m == CLASS_PATTERN(s, from)
  IN  IF m.ok THEN << m.name >> \o ClassNames(s, m.end) ELSE << >>

RECURSIVE NamespaceNames(_, _)
NamespaceNames(s, from) ==
  LET m == NAMESPACE_PATTERN(s, from)
  IN  IF m.ok THEN << m.name >> \o NamespaceNames(s, m.end) ELSE << >>

RECURSIVE IncludeNames(_, _)
IncludeNames(s, from) ==
  LET m == INCLUDE_PATTERN(s, from)
  IN  IF m.ok THEN << m.name >> \o IncludeNames(s, m.end) ELSE << >>

RECURSIVE FunctionNames(_, _)
FunctionNames(s, from) ==
  LET m == FUNCTION_PATTERN(s, from)
  IN  IF m.ok THEN << m.name >> \o FunctionNames(s, m.end) ELSE << >>

\* the [:20] of metadata['functions']
MaxMetadataFunctions == 20

\* variant of extract_metadata: a class name is listed once
extract_metadata_ClassesOnce(path, text) ==
  [classes    |-> LET names == ClassNames(text, 0)
                      first == SelectSeq([k \in 1..Len(names) |-> k],
                                         LAMBDA k : \A j \in 1..(k - 1) : names[j] # names[k])
                  IN  [k \in 1..Len(first) |-> names[first[k]]],
   functions  |-> Take(FunctionNames(text, 0), MaxMetadataFunctions),
   namespaces |-> NamespaceNames(text, 0),
   includes   |-> IncludeNames(text, 0),
   file_size  |-> Len(text),
   line_count |-> CountNL(text, Len(text)),
   has_main   |-> Contains(text, Lit_int_main) \/ Contains(text, Lit_void_main)]

extract_metadata(path, text) ==
  [classes    |-> ClassNames(text, 0),
   functions  |-> Take(FunctionNames(text, 0), MaxMetadataFunctions),
   namespaces |-> NamespaceNames(text, 0),
   includes   |-> IncludeNames(text, 0),
   file_size  |-> Len(text),
   line_count |-> CountNL(text, Len(text)),
   has_main   |-> Contains(text, Lit_int_main) \/ Contains(text, Lit_void_main)]

\* {**metadata, 'detail_level': level}
WithLevel(md, level) == ("detail_level" :> level) @@ md

\* {**metadata, 'detail_level': level, key: name}
WithName(md, level, key, name) == (key :> name) @@ WithLevel(md, level)

(***************************************************************************)
(* create_level0_chunk                                                     *)
(***************************************************************************)
create_level0_chunk(path, text, md) ==
  LET classes_str == IF Len(md.classes) > 0
                     THEN Str(Len(md.classes)) \o Lit_classes
                     ELSE Lit_no_classes
      funcs_str   == IF Len(md.functions) > 0
                     THEN Str(Len(md.functions)) \o Lit_functions
                     ELSE Lit_no_functions
      summary     == PathName(path) \o Lit_colon_sp \o classes_str
                       \o Lit_comma_sp \o funcs_str
      summary2    == IF Len(md.classes) > 0
                     THEN summary \o Lit_sp_paren
                            \o Join(Take(md.classes, 3), Lit_comma_sp)
                            \o Lit_close_paren
                     ELSE summary
  IN  [id           |-> ChunkId(path, Lit_L0),
       file_path    |-> path,
       content      |-> summary2,
       chunk_type   |-> "file_summary",
       detail_level |-> 0,
       start_line   |-> 0,
       end_line     |-> 0,
       metadata     |-> WithLevel(md, 0)]

(***************************************************************************)
(* create_level1_chunk                                                     *)
(***************************************************************************)
IsCommentLine(line) ==
  LET stripped == Strip(line)
  IN  \/ StartsWith(stripped, 0, Lit_slashes)
      \/ StartsWith(stripped, 0, Lit_slash_star)
      \/ StartsWith(stripped, 0, Lit_star)

\* the elements of ls, in order, that satisfy Keep
RECURSIVE CommentLines(_)
CommentLines(ls) ==
  IF Len(ls) = 0 THEN << >>
  ELSE (IF IsCommentLine(Head(ls)) THEN << Head(ls) >> ELSE << >>)
         \o CommentLines(Tail(ls))

RECURSIVE IncludeLines(_)
IncludeLines(incs) ==
  IF Len(incs) = 0 THEN << >>
  ELSE << Lit_include_open \o Head(incs) \o Lit_gt >> \o IncludeLines(Tail(incs))

\* end_line of the file overview
OverviewEndLine == 30

create_level1_chunk(path, text, md) ==
  LET ls == Split(text)
      overview_lines ==
        CommentLines(Take(ls, 10))
          \o << Lit_includes_hdr >>
          \o IncludeLines(Take(md.includes, 5))
          \o (IF Len(md.namespaces) > 0
              THEN << Lit_namespaces_hdr \o Join(Take(md.namespaces, 3), Lit_comma_sp) >>
              ELSE << >>)
          \o (IF Len(md.classes) > 0
              THEN << Lit_classes_hdr \o Join(Take(md.classes, 5), Lit_comma_sp) >>
              ELSE << >>)
          \o (IF Len(md.functions) > 0
              THEN << Lit_functions_hdr \o Str(Len(md.functions)) \o Lit_total >>
              ELSE << >>)
  IN  [id           |-> ChunkId(path, Lit_L1),
       file_path    |-> path,
       content      |-> Join(Take(overview_lines, 30), Lit_newline),
       chunk_type   |-> "file_overview",
       detail_level |-> 1,
       start_line   |-> 0,
       end_line     |-> OverviewEndLine,
       metadata     |-> WithLevel(md, 1)]

(***************************************************************************)
(* The brace scans.  One step of each loop is one operator on the loop's   *)
(* locals [brace_count, pos, lines_extracted, broke].                      *)
(***************************************************************************)
\* the line caps of the bounded scans
ClassScanLines == 20

PreviewScanLines == 15

\* the minimum trimmed lengths
MinPreviewChars == 20

MinFullChars == 50

MinBlockChars == 50

\* the lines every window shares with the next one
WindowOverlap == 10

ScanStart(m) ==
  [brace_count |-> 1, pos |-> m.end, lines_extracted |-> 0, broke |-> FALSE]

\* variant of Level2ScanCond: the scan is not capped by lines
Level2ScanCond_NoLineCap(text, sc) ==
  /\ sc.pos < Len(text)
  /\ sc.brace_count > 0

\* while pos < len(content) and brace_count > 0 and lines_extracted < 20
Level2ScanCond(text, sc) ==
  /\ sc.pos < Len(text)
  /\ sc.brace_count > 0
  /\ sc.lines_extracted < ClassScanLines

Level2ScanStep(text, sc) ==
  LET c == At(text, sc.pos)
  IN  [brace_count     |-> IF c = "{" THEN sc.brace_count + 1
                           ELSE IF c = "}" THEN sc.brace_count - 1
                           ELSE sc.brace_count,
       pos             |-> sc.pos + 1,
       lines_extracted |-> IF c = "\n" THEN sc.lines_extracted + 1
                           ELSE sc.lines_extracted,
       broke           |-> FALSE]

\* while pos < len(content) and lines_extracted < 15, left by break
Level3ScanCond(text, sc) ==
  /\ ~sc.broke
  /\ sc.pos < Len(text)
  /\ sc.lines_extracted < PreviewScanLines

Level3ScanStep(text, sc) ==
  LET c      == At(text, sc.pos)
      closed == c = "}" /\ sc.brace_count - 1 = 0
  IN  [brace_count     |-> IF c = "{" THEN sc.brace_count + 1
                           ELSE IF c = "}" THEN sc.brace_count - 1
                           ELSE sc.brace_count,
       pos             |-> IF closed THEN sc.pos ELSE sc.pos + 1,
       lines_extracted |-> IF c = "\n" THEN sc.lines_extracted + 1
                           ELSE sc.lines_extracted,
       broke           |-> closed]

\* variant of Level4ScanStep: an opening brace is counted without moving on
Level4ScanStep_StuckOnOpen(text, sc) ==
  LET c == At(text, sc.pos)
  IN  [brace_count     |-> IF c = "{" THEN sc.brace_count + 1
                           ELSE IF c = "}" THEN sc.brace_count - 1
                           ELSE sc.brace_count,
       pos             |-> IF c = "{" THEN sc.pos ELSE sc.pos + 1,
       lines_extracted |-> sc.lines_extracted,
       broke           |-> FALSE]

\* variant of Level4ScanCond: the last character of the text is not scanned
Level4ScanCond_StopsBeforeLast(text, sc) ==
  /\ sc.pos < Len(text) - 1
  /\ sc.brace_count > 0

\* while pos < len(content) and brace_count > 0
Level4ScanCond(text, sc) ==
  /\ sc.pos < Len(text)
  /\ sc.brace_count > 0

Level4ScanStep(text, sc) ==
  LET c == At(text, sc.pos)
  IN  [brace_count     |-> IF c = "{" THEN sc.brace_count + 1
                           ELSE IF c = "}" THEN sc.brace_count - 1
                           ELSE sc.brace_count,
       pos             |-> sc.pos + 1,
       lines_extracted |-> sc.lines_extracted,
       broke           |-> FALSE]

(***************************************************************************)
(* create_level2_chunks: the chunk of one class match, scan ended at pos   *)
(***************************************************************************)
KeepSummaryLine(line) ==
  \/ Contains(line, Lit_open_brace)
  \/ Contains(line, Lit_close_brace)
  \/ Contains(line, Lit_public_colon)
  \/ Contains(line, Lit_private_colon)
  \/ Contains(line, Lit_protected_colon)
  \/ /\ Len(Strip(line)) > 0
     /\ ~StartsWith(Strip(line), 0, Lit_slashes)

RECURSIVE SummaryLines(_)
SummaryLines(ls) ==
  IF Len(ls) = 0 THEN << >>
  ELSE (IF KeepSummaryLine(Head(ls)) THEN << Head(ls) >> ELSE << >>)
         \o SummaryLines(Tail(ls))

Level2Key(path, class_name) ==
  path \o Lit_underscore \o class_name \o Lit_L2

Level2Chunk(path, text, md, m, pos) ==
  LET class_summary == Slice(text, m.start, pos)
      summary_lines == SummaryLines(Take(Split(class_summary), 20))
  IN  [id           |-> ChunkId(Level2Key(path, m.name), << >>),
       file_path    |-> path,
       content      |-> Join(Take(summary_lines, 20), Lit_newline),
       chunk_type   |-> "class_summary",
       detail_level |-> 2,
       start_line   |-> CountNL(text, m.start),
       end_line     |-> CountNL(text, pos),
       metadata     |-> WithName(md, 2, "class_name", m.name)]

(***************************************************************************)
(* create_level3_chunks: the chunk of one function match, or none          *)
(***************************************************************************)
FunctionKey(path, func_name, level, start_line) ==
  path \o Lit_underscore \o func_name \o level \o Str(start_line)

\* variant of Level3Skipped: a preview of exactly the minimum is dropped too
Level3Skipped_AtMinimum(text, m, pos) ==
  Len(Strip(Slice(text, m.start, pos))) <= MinPreviewChars

Level3Skipped(text, m, pos) ==
  Len(Strip(Slice(text, m.start, pos))) < MinPreviewChars

\* variant of Level3Chunk: end_line is the line cap after the start line
Level3Chunk_EndAtCap(path, text, md, m, pos) ==
  LET start_line == CountNL(text, m.start)
  IN  [id           |-> ChunkId(FunctionKey(path, m.name, Lit_L3, start_line), << >>),
       file_path    |-> path,
       content      |-> Slice(text, m.start, pos),
       chunk_type   |-> "function_preview",
       detail_level |-> 3,
       start_line   |-> start_line,
       end_line     |-> start_line + PreviewScanLines,
       metadata     |-> WithName(md, 3, "function_name", m.name)]

Level3Chunk(path, text, md, m, pos) ==
  LET start_line == CountNL(text, m.start)
  IN  [id           |-> ChunkId(FunctionKey(path, m.name, Lit_L3, start_line), << >>),
       file_path    |-> path,
       content      |-> Slice(text, m.start, pos),
       chunk_type   |-> "function_preview",
       detail_level |-> 3,
       start_line   |-> start_line,
       end_line     |-> CountNL(text, pos),
       metadata     |-> WithName(md, 3, "function_name", m.name)]

(***************************************************************************)
(* create_level4_chunks: the chunk of one function match, or none, and    *)
(* the chunk of one window, or none                                        *)
(***************************************************************************)
\* variant of Level4Skipped: the minimum of the previews is applied
Level4Skipped_PreviewMinimum(text, m, pos) ==
  Len(Strip(Slice(text, m.start, pos))) < MinPreviewChars

Level4Skipped(text, m, pos) ==
  Len(Strip(Slice(text, m.start, pos))) < MinFullChars

\* variant of Level4Chunk: the id is keyed by the line the function ends on
Level4Chunk_IdByEndLine(path, text, md, m, pos) ==
  LET start_line == CountNL(text, m.start)
  IN  [id           |-> ChunkId(FunctionKey(path, m.name, Lit_L4, CountNL(text, pos)), << >>),
       file_path    |-> path,
       content      |-> Slice(text, m.start, pos),
       chunk_type   |-> "function_full",
       detail_level |-> 4,
       start_line   |-> start_line,
       end_line     |-> CountNL(text, pos),
       metadata     |-> WithName(md, 4, "function_name", m.name)]

\* variant of Level4Chunk: the chunk is filed under the level of the previews
Level4Chunk_PreviewLevel(path, text, md, m, pos) ==
  LET start_line == CountNL(text, m.start)
  IN  [id           |-> ChunkId(FunctionKey(path, m.name, Lit_L4, start_line), << >>),
       file_path    |-> path,
       content      |-> Slice(text, m.start, pos),
       chunk_type   |-> "function_full",
       detail_level |-> 3,
       start_line   |-> start_line,
       end_line     |-> CountNL(text, pos),
       metadata     |-> WithName(md, 4, "function_name", m.name)]

Level4Chunk(path, text, md, m, pos) ==
  LET start_line == CountNL(text, m.start)
  IN  [id           |-> ChunkId(FunctionKey(path, m.name, Lit_L4, start_line), << >>),
       file_path    |-> path,
       content      |-> Slice(text, m.start, pos),
       chunk_type   |-> "function_full",
       detail_level |-> 4,
       start_line   |-> start_line,
       end_line     |-> CountNL(text, pos),
       metadata     |-> WithName(md, 4, "function_name", m.name)]

\* lines[current_pos:current_pos + chunk_size]
WindowLines(ls, current_pos, size) ==
  PySlice(ls, current_pos, current_pos + size)

\* variant of WindowKept: the lines are counted, not the characters
WindowKept_CountsLines(ls, current_pos, size) ==
  Len(WindowLines(ls, current_pos, size)) > MinBlockChars

WindowKept(ls, current_pos, size) ==
  Len(Strip(Join(WindowLines(ls, current_pos, size), Lit_newline))) > MinBlockChars

BlockKey(path, chunk_idx) == path \o Lit_L4_block \o Str(chunk_idx)

\* variant of BlockChunk: end_line is the length of the window
BlockChunk_EndIsLength(path, md, ls, current_pos, chunk_idx, size) ==
  LET chunk_lines == WindowLines(ls, current_pos, size)
  IN  [id           |-> ChunkId(BlockKey(path, chunk_idx), << >>),
       file_path    |-> path,
       content      |-> Join(chunk_lines, Lit_newline),
       chunk_type   |-> "code_block",
       detail_level |-> 4,
       start_line   |-> current_pos,
       end_line     |-> Len(chunk_lines),
       metadata     |-> WithLevel(md, 4)]

BlockChunk(path, md, ls, current_pos, chunk_idx, size) ==
  LET chunk_lines == WindowLines(ls, current_pos, size)
  IN  [id           |-> ChunkId(BlockKey(path, chunk_idx), << >>),
       file_path    |-> path,
       content      |-> Join(chunk_lines, Lit_newline),
       chunk_type   |-> "code_block",
       detail_level |-> 4,
       start_line   |-> current_pos,
       end_line     |-> current_pos + Len(chunk_lines),
       metadata     |-> WithLevel(md, 4)]

\* variant of NextWindow: the windows do not overlap
NextWindow_NoOverlap(current_pos, size) == current_pos + size

\* current_pos += chunk_size - 10
NextWindow(current_pos, size) == current_pos + size - WindowOverlap

(***************************************************************************)
(* The inputs: file texts assembled from C++ fragments, and the window     *)
(* sizes.                                                                  *)
(***************************************************************************)
\* 'void run() {\n  doWork();\n}\n'
F_run ==
  <<"v","o","i","d"," ","r","u","n","(",")"," ","{","\n"," "," ","d","o",
    "W","o","r","k","(",")",";","\n","}","\n">>

\* 'if (x) {\n  total = total + x;\n  count = count + 1;\n}\n'
F_if ==
  <<"i","f"," ","(","x",")"," ","{","\n"," "," ","t","o","t","a","l"," ",
    "="," ","t","o","t","a","l"," ","+"," ","x",";","\n"," "," ","c","o",
    "u","n","t"," ","="," ","c","o","u","n","t"," ","+"," ","1",";","\n",
    "}","\n">>

\* 'class Foo : public Bar {\npublic:\n  int x;\n};\n'
F_foo ==
  <<"c","l","a","s","s"," ","F","o","o"," ",":"," ","p","u","b","l","i","c",
    " ","B","a","r"," ","{","\n","p","u","b","l","i","c",":","\n"," "," ",
    "i","n","t"," ","x",";","\n","}",";","\n">>

\* 'int f() { return a + b; } '
F_f ==
  <<"i","n","t"," ","f","(",")"," ","{"," ","r","e","t","u","r","n"," ","a",
    " ","+"," ","b",";"," ","}"," ">>

\* 'void g(int a) {\n  while (a) {\n    a = a + 1;\n'
F_open ==
  <<"v","o","i","d"," ","g","(","i","n","t"," ","a",")"," ","{","\n"," ",
    " ","w","h","i","l","e"," ","(","a",")"," ","{","\n"," "," "," "," ",
    "a"," ","="," ","a"," ","+"," ","1",";","\n">>

\* '#include <a.h>\n// util\nnamespace N {\n'
F_head ==
  <<"#","i","n","c","l","u","d","e"," ","<","a",".","h",">","\n","/","/",
    " ","u","t","i","l","\n","n","a","m","e","s","p","a","c","e"," ","N",
    " ","{","\n">>

\* 'struct S {\n  // note\nvoid h() const {\n'
F_big_open ==
  <<"s","t","r","u","c","t"," ","S"," ","{","\n"," "," ","/","/"," ","n",
    "o","t","e","\n","v","o","i","d"," ","h","(",")"," ","c","o","n","s",
    "t"," ","{","\n">>

\* 'x;\n'
F_stmt ==
  <<"x",";","\n">>

\* '}\n};\n'
F_big_close ==
  <<"}","\n","}",";","\n">>

\* 'public:\n'
F_public ==
  <<"p","u","b","l","i","c",":","\n">>

\* 'src/a.h'
F_path ==
  <<"s","r","c","/","a",".","h">>

\* 'aaaaaaaaaaaaaaaaaaaaaaaaaaaaaaaaaaaaaaaaaaaaaaaaaaaa;\n'
F_long_line ==
  <<"a","a","a","a","a","a","a","a","a","a","a","a","a","a","a","a","a","a",
    "a","a","a","a","a","a","a","a","a","a","a","a","a","a","a","a","a","a",
    "a","a","a","a","a","a","a","a","a","a","a","a","a","a","a","a",";","\n">>

\* 'x\n'
F_text_line ==
  <<"x","\n">>


\* n copies of piece
Rep(n, piece) ==
  [i \in 1..(n * Len(piece)) |-> piece[((i - 1) % Len(piece)) + 1]]

RECURSIVE Concat(_)
Concat(ps) == IF Len(ps) = 0 THEN << >> ELSE Head(ps) \o Concat(Tail(ps))

\* s without its last character
DropLast(s) == IF Len(s) = 0 THEN s ELSE SubSeq(s, 1, Len(s) - 1)

\* a struct of 25 lines around a method of 23 lines
F_big == F_big_open \o Rep(21, F_stmt) \o F_big_close

\* ten blank lines
F_blank10 == Rep(10, Lit_newline)

\* ten lines, the last of which is an access specifier
F_pre10 == F_head \o Rep(6, Lit_newline) \o F_public

Pieces == {F_run, F_if, F_foo, F_f, F_open, F_big, F_blank10, F_pre10}

\* the number of fragments of a structured file
MaxPieces == 2

StructuredFiles ==
  UNION { { Concat(ps) : ps \in [1..n -> Pieces] } : n \in 0..MaxPieces }

\* files of short text lines with a run of blank lines in the middle
TextRuns == {30, 40, 41, 200}

BlankRuns == {0, 60}

TailRuns == {0, 40}

LineFiles ==
  UNION { { Rep(n1, F_text_line) \o Rep(n2, Lit_newline) \o Rep(n3, F_text_line),
            DropLast(Rep(n1, F_text_line) \o Rep(n2, Lit_newline) \o Rep(n3, F_text_line)) }
          : <<n1, n2, n3>> \in TextRuns \X BlankRuns \X TailRuns }

\* files of a few lines that each exceed the minimum block length alone
MaxLongLines == 4

LongLineFiles ==
  UNION { { Rep(n, F_long_line), DropLast(Rep(n, F_long_line)) }
          : n \in 1..MaxLongLines }

\* 'int f(){'
F_fn_open ==
  <<"i","n","t"," ","f","(",")","{">>

\* one-line files 'int f(){aa...a}' around the minimum lengths: the preview
\* has 8 characters more than the body, the function and the window 9 more
ThresholdBodies == {11, 12, 40, 41, 42}

ThresholdFiles ==
  { F_fn_open \o Rep(k, <<"a">>) \o Lit_close_brace : k \in ThresholdBodies }

\* 'int work(int a) {\n  a = a + 1;\n  return a * 2 + 1;\n}\n'
F_work ==
  <<"i","n","t"," ","w","o","r","k","(","i","n","t"," ","a",")"," ","{",
    "\n"," "," ","a"," ","="," ","a"," ","+"," ","1",";","\n"," "," ","r",
    "e","t","u","r","n"," ","a"," ","*"," ","2"," ","+"," ","1",";","\n",
    "}","\n">>

\* files of more functions than metadata['functions'] can list, each function
\* longer than the minimum of both function levels
ManyFunctionFiles == { Rep(MaxMetadataFunctions + 1, F_work) }

\* 'struct T {\n\n  // c\n  // public: d\n  /* e */\n  int y; // f\n'
F_T_open ==
  <<"s","t","r","u","c","t"," ","T"," ","{","\n","\n"," "," ","/","/"," ",
    "c","\n"," "," ","/","/"," ","p","u","b","l","i","c",":"," ","d","\n",
    " "," ","/","*"," ","e"," ","*","/","\n"," "," ","i","n","t"," ","y",
    ";"," ","/","/"," ","f","\n">>

\* a struct with blank and comment lines that is never closed, alone and
\* before a class that is closed
ClassFiles == { F_T_open, F_T_open \o F_foo }

Paths == {F_path}

DefaultChunkSize == 50

StructuredSizes == {10, DefaultChunkSize}

LongLineSizes == {5, 11, 12, DefaultChunkSize}

\* the window loop is cut after this many windows (it need not end)
MaxWindows == 12

(***************************************************************************)
(* create_all_chunks as a state machine.                                   *)
(***************************************************************************)
VARIABLES
  file_path,    \* argument
  content,      \* argument
  chunk_size,   \* argument
  pc,           \* position in create_all_chunks
  metadata,     \* the dict extract_metadata returned
  chunks,       \* the list being built
  it_pos,       \* where the running finditer resumes
  match,        \* class_match / func_match of the running loop body
  scan,         \* brace_count, pos, lines_extracted of the running scan
  lines,        \* content.split('\n') of create_level4_chunks
  current_pos,  \* window loop
  chunk_idx     \* window loop

\* the callers of create_all_chunks
VARIABLES
  returned,     \* the arguments and the list of each call that has returned
  files,        \* run_full_index: the list scan_files returned
  batch_size,   \* run_full_index: config['batch_size']
  batch_start,  \* run_full_index: i of the batch loop
  batch_pos,    \* run_full_index: files of the batch handled so far
  all_chunks,   \* run_full_index
  total_chunks, \* run_full_index
  collection,   \* the chunks the collection holds
  add_calls,    \* the calls of collection.add so far: the ids, and whether it raised
  log,          \* the errors logged so far
  pbar,         \* run_full_index: the files the progress bar counts
  ipc           \* position in run_full_index

\* CadlibIndexer.run_initial_index and what it leaves behind
VARIABLES
  source,       \* the files below config['source_path'], as scan() lists them
  config,       \* enable_checkpoints and checkpoint_interval of the config
  checkpoint,   \* latest.pkl: whether it exists, and the state it holds
  start_idx,    \* run_initial_index: where the run starts in the scan
  processed,    \* the files whose batch process_batch has completed, in order
  runs          \* the calls of run_initial_index so far

chunker == <<file_path, content, chunk_size, pc, metadata, chunks, it_pos, match,
             scan, lines, current_pos, chunk_idx>>

indexer == <<files, batch_size, batch_start, batch_pos, all_chunks, total_chunks,
             collection, add_calls, log, pbar, ipc>>

resumable == <<source, config, checkpoint, start_idx, processed, runs>>

outer == <<returned, indexer, resumable>>

vars == <<chunker, returned, indexer, resumable>>

inputs == <<file_path, content, chunk_size>>

NoMetadata ==
  [classes |-> << >>, functions |-> << >>, namespaces |-> << >>,
   includes |-> << >>, file_size |-> 0, line_count |-> 0, has_main |-> FALSE]

\* run_full_index is not running
IndexerIdle ==
  /\ files = << >>
  /\ batch_size = 0
  /\ batch_start = 0
  /\ batch_pos = 0
  /\ all_chunks = << >>
  /\ total_chunks = 0
  /\ collection = {}
  /\ add_calls = << >>
  /\ log = << >>
  /\ pbar = 0
  /\ ipc = "idle"

NoCheckpoint == [exists |-> FALSE, processed_files |-> 0, total_chunks |-> 0]

\* run_initial_index has not been called and there is no checkpoint
NoRun ==
  /\ source = << >>
  /\ config = [enable_checkpoints |-> FALSE, checkpoint_interval |-> 1]
  /\ checkpoint = NoCheckpoint
  /\ start_idx = 0
  /\ processed = << >>
  /\ runs = 0

\* create_all_chunks has been entered
Entered ==
  /\ pc = "extract_metadata"
  /\ metadata = NoMetadata
  /\ chunks = << >>
  /\ it_pos = 0
  /\ match = NoMatch
  /\ scan = ScanStart(NoMatch)
  /\ lines = << >>
  /\ current_pos = 0
  /\ chunk_idx = 0

Init ==
  /\ returned = << >>
  /\ IndexerIdle
  /\ NoRun
  /\ file_path \in Paths
  /\ \/ content \in StructuredFiles /\ chunk_size \in StructuredSizes
     \/ content \in LineFiles /\ chunk_size = DefaultChunkSize
     \/ content \in LongLineFiles /\ chunk_size \in LongLineSizes
     \/ content \in ThresholdFiles /\ chunk_size = DefaultChunkSize
     \/ content \in ManyFunctionFiles /\ chunk_size = DefaultChunkSize
     \/ content \in ClassFiles /\ chunk_size = DefaultChunkSize
  /\ Entered

ExtractMetadata ==
  /\ pc = "extract_metadata"
  /\ metadata' = extract_metadata(file_path, content)
  /\ pc' = "level0"
  /\ UNCHANGED <<outer, inputs, chunks, it_pos, match, scan, lines, current_pos, chunk_idx>>

\* variant of Level0: the level is written into the metadata of the file
Level0_WritesLevel ==
  /\ pc = "level0"
  /\ metadata' = WithLevel(metadata, 0)
  /\ chunks' = Append(chunks, create_level0_chunk(file_path, content, metadata))
  /\ pc' = "level1"
  /\ UNCHANGED <<outer, inputs, it_pos, match, scan, lines, current_pos, chunk_idx>>

\* variant of Level0: the id of the summary numbers the calls
Level0_NumbersCalls ==
  /\ pc = "level0"
  /\ chunks' = Append(chunks,
                 [create_level0_chunk(file_path, content, metadata)
                    EXCEPT !.id = ChunkId(file_path, Lit_L0 \o Str(Len(returned)))])
  /\ pc' = "level1"
  /\ UNCHANGED <<outer, inputs, metadata, it_pos, match, scan, lines, current_pos, chunk_idx>>

Level0 ==
  /\ pc = "level0"
  /\ chunks' = Append(chunks, create_level0_chunk(file_path, content, metadata))
  /\ pc' = "level1"
  /\ UNCHANGED <<outer, inputs, metadata, it_pos, match, scan, lines, current_pos, chunk_idx>>

\* variant of Level1: the file summary is appended a second time
Level1_AppendsSummary ==
  /\ pc = "level1"
  /\ chunks' = Append(chunks, create_level0_chunk(file_path, content, metadata))
  /\ pc' = "level2"
  /\ it_pos' = 0
  /\ UNCHANGED <<outer, inputs, metadata, match, scan, lines, current_pos, chunk_idx>>

Level1 ==
  /\ pc = "level1"
  /\ chunks' = Append(chunks, create_level1_chunk(file_path, content, metadata))
  /\ pc' = "level2"
  /\ it_pos' = 0
  /\ UNCHANGED <<outer, inputs, metadata, match, scan, lines, current_pos, chunk_idx>>

\* for class_match in CLASS_PATTERN.finditer(content): up to the scan
Level2Next ==
  /\ pc = "level2"
  /\ LET m == CLASS_PATTERN(content, it_pos)
     IN  IF m.ok
         THEN /\ match' = m
              /\ scan' = ScanStart(m)
              /\ it_pos' = m.end
              /\ pc' = "level2_scan"
         ELSE /\ pc' = "level3"
              /\ it_pos' = 0
              /\ UNCHANGED <<match, scan>>
  /\ UNCHANGED <<outer, inputs, metadata, chunks, lines, current_pos, chunk_idx>>

Level2Scan ==
  /\ pc = "level2_scan"
  /\ Level2ScanCond(content, scan)
  /\ scan' = Level2ScanStep(content, scan)
  /\ UNCHANGED <<outer, inputs, pc, metadata, chunks, it_pos, match, lines, current_pos, chunk_idx>>

Level2Append ==
  /\ pc = "level2_scan"
  /\ ~Level2ScanCond(content, scan)
  /\ chunks' = Append(chunks, Level2Chunk(file_path, content, metadata, match, scan.pos))
  /\ pc' = "level2"
  /\ UNCHANGED <<outer, inputs, metadata, it_pos, match, scan, lines, current_pos, chunk_idx>>

\* for func_match in FUNCTION_PATTERN.finditer(content): up to the scan
Level3Next ==
  /\ pc = "level3"
  /\ LET m == FUNCTION_PATTERN(content, it_pos)
     IN  IF m.ok
         THEN /\ match' = m
              /\ scan' = ScanStart(m)
              /\ it_pos' = m.end
              /\ pc' = "level3_scan"
              /\ UNCHANGED lines
         ELSE /\ pc' = "level4"
              /\ it_pos' = 0
              /\ lines' = Split(content)
              /\ UNCHANGED <<match, scan>>
  /\ UNCHANGED <<outer, inputs, metadata, chunks, current_pos, chunk_idx>>

Level3Scan ==
  /\ pc = "level3_scan"
  /\ Level3ScanCond(content, scan)
  /\ scan' = Level3ScanStep(content, scan)
  /\ UNCHANGED <<outer, inputs, pc, metadata, chunks, it_pos, match, lines, current_pos, chunk_idx>>

\* variant of Level3Append: the preview is put at the front of the list
Level3Append_AtFront ==
  /\ pc = "level3_scan"
  /\ ~Level3ScanCond(content, scan)
  /\ chunks' = IF Level3Skipped(content, match, scan.pos) THEN chunks
               ELSE << Level3Chunk(file_path, content, metadata, match, scan.pos) >> \o chunks
  /\ pc' = "level3"
  /\ UNCHANGED <<outer, inputs, metadata, it_pos, match, scan, lines, current_pos, chunk_idx>>

Level3Append ==
  /\ pc = "level3_scan"
  /\ ~Level3ScanCond(content, scan)
  /\ chunks' = IF Level3Skipped(content, match, scan.pos) THEN chunks
               ELSE Append(chunks, Level3Chunk(file_path, content, metadata, match, scan.pos))
  /\ pc' = "level3"
  /\ UNCHANGED <<outer, inputs, metadata, it_pos, match, scan, lines, current_pos, chunk_idx>>

\* variant of Level4Next: the loop ends after as many functions as the
\* metadata lists
Level4Next_ListedOnly ==
  /\ pc = "level4"
  /\ LET m == FUNCTION_PATTERN(content, it_pos)
         n == Cardinality({k \in 1..Len(chunks) : chunks[k].chunk_type = "function_full"})
     IN  IF m.ok /\ n < MaxMetadataFunctions
         THEN /\ match' = m
              /\ scan' = ScanStart(m)
              /\ it_pos' = m.end
              /\ pc' = "level4_scan"
              /\ UNCHANGED <<current_pos, chunk_idx>>
         ELSE /\ pc' = "window"
              /\ current_pos' = 0
              /\ chunk_idx' = 0
              /\ UNCHANGED <<match, scan, it_pos>>
  /\ UNCHANGED <<outer, inputs, metadata, chunks, lines>>

Level4Next ==
  /\ pc = "level4"
  /\ LET m == FUNCTION_PATTERN(content, it_pos)
     IN  IF m.ok
         THEN /\ match' = m
              /\ scan' = ScanStart(m)
              /\ it_pos' = m.end
              /\ pc' = "level4_scan"
              /\ UNCHANGED <<current_pos, chunk_idx>>
         ELSE /\ pc' = "window"
              /\ current_pos' = 0
              /\ chunk_idx' = 0
              /\ UNCHANGED <<match, scan, it_pos>>
  /\ UNCHANGED <<outer, inputs, metadata, chunks, lines>>

Level4Scan ==
  /\ pc = "level4_scan"
  /\ Level4ScanCond(content, scan)
  /\ scan' = Level4ScanStep(content, scan)
  /\ UNCHANGED <<outer, inputs, pc, metadata, chunks, it_pos, match, lines, current_pos, chunk_idx>>

Level4Append ==
  /\ pc = "level4_scan"
  /\ ~Level4ScanCond(content, scan)
  /\ chunks' = IF Level4Skipped(content, match, scan.pos) THEN chunks
               ELSE Append(chunks, Level4Chunk(file_path, content, metadata, match, scan.pos))
  /\ pc' = "level4"
  /\ UNCHANGED <<outer, inputs, metadata, it_pos, match, scan, lines, current_pos, chunk_idx>>

\* variant of Window: the window index counts the windows that are kept
Window_CountsKept ==
  /\ pc = "window"
  /\ current_pos < Len(lines)
  /\ chunk_idx < MaxWindows
  /\ chunks' = IF WindowKept(lines, current_pos, chunk_size)
               THEN Append(chunks, BlockChunk(file_path, metadata, lines,
                                              current_pos, chunk_idx, chunk_size))
               ELSE chunks
  /\ current_pos' = NextWindow(current_pos, chunk_size)
  /\ chunk_idx' = IF WindowKept(lines, current_pos, chunk_size)
                  THEN chunk_idx + 1 ELSE chunk_idx
  /\ UNCHANGED <<outer, inputs, pc, metadata, it_pos, match, scan, lines>>

\* one iteration of while current_pos < len(lines)
Window ==
  /\ pc = "window"
  /\ current_pos < Len(lines)
  /\ chunk_idx < MaxWindows
  /\ chunks' = IF WindowKept(lines, current_pos, chunk_size)
               THEN Append(chunks, BlockChunk(file_path, metadata, lines,
                                              current_pos, chunk_idx, chunk_size))
               ELSE chunks
  /\ current_pos' = NextWindow(current_pos, chunk_size)
  /\ chunk_idx' = chunk_idx + 1
  /\ UNCHANGED <<outer, inputs, pc, metadata, it_pos, match, scan, lines>>

\* return chunks
Return ==
  /\ pc = "window"
  /\ ~(current_pos < Len(lines))
  /\ pc' = "done"
  /\ UNCHANGED <<outer, inputs, metadata, chunks, it_pos, match, scan, lines, current_pos, chunk_idx>>

Next ==
  \/ ExtractMetadata
  \/ Level0
  \/ Level1
  \/ Level2Next
  \/ Level2Scan
  \/ Level2Append
  \/ Level3Next
  \/ Level3Scan
  \/ Level3Append
  \/ Level4Next
  \/ Level4Scan
  \/ Level4Append
  \/ Window
  \/ Return

Spec == Init /\ [][Next]_vars

(***************************************************************************)
(* create_all_chunks called again for the same path, after the file was    *)
(* left as it is or edited.                                                *)
(***************************************************************************)
\* the file at the later call: unchanged, with a block appended to it, or
\* with ten blank lines put before it
Revisions(text) == {text, text \o F_if, F_blank10 \o text}

\* the number of calls in a row
MaxCalls == 2

InitTwoCalls ==
  /\ returned = << >>
  /\ IndexerIdle
  /\ NoRun
  /\ file_path \in Paths
  /\ content \in StructuredFiles
  /\ chunk_size = DefaultChunkSize
  /\ Entered

\* the call has returned and the caller calls again
CallAgain ==
  /\ pc = "done"
  /\ Len(returned) + 1 < MaxCalls
  /\ returned' = Append(returned, [file_path |-> file_path, content |-> content,
                                   chunk_size |-> chunk_size, chunks |-> chunks])
  /\ content' \in Revisions(content)
  /\ pc' = "extract_metadata"
  /\ metadata' = NoMetadata
  /\ chunks' = << >>
  /\ it_pos' = 0
  /\ match' = NoMatch
  /\ scan' = ScanStart(NoMatch)
  /\ lines' = << >>
  /\ current_pos' = 0
  /\ chunk_idx' = 0
  /\ UNCHANGED <<file_path, chunk_size, indexer, resumable>>

NextTwoCalls ==
  \/ Next
  \/ CallAgain

SpecTwoCalls == InitTwoCalls /\ [][NextTwoCalls]_vars

(***************************************************************************)
(* HierarchicalIndexer.run_full_index: the files scan_files found are      *)
(* processed in batches; the chunks of a batch are embedded and added to   *)
(* the collection.  A file is the place of its path in the scan, whether   *)
(* open() succeeds on it, and the number of chunks create_all_chunks       *)
(* returns for it; a chunk is its id, its file and its embedding.          *)
(***************************************************************************)
\* the number of files the scan finds
MaxFiles == 3

\* the largest config['batch_size']
MaxBatchSize == 2

\* create_all_chunks returns the two file chunks and the chunks of the
\* deeper levels
ChunkCounts == {2, 3}

FileLists ==
  UNION { { fs \in [1..n -> [path : 1..n, readable : BOOLEAN, length : ChunkCounts]] :
              \A k \in 1..n : fs[k].path = k }
          : n \in 0..MaxFiles }

\* process_file: the chunks of the file, or [] when reading it raises
process_file(f) ==
  IF f.readable
  THEN [k \in 1..f.length |->
          [id |-> <<f.path, k>>, file_path |-> f.path, embedding |-> FALSE]]
  ELSE << >>

\* chunk['embedding'] = embeddings[i].tolist()
generate_embeddings(cs) ==
  [k \in 1..Len(cs) |-> [cs[k] EXCEPT !.embedding = TRUE]]

\* files[i:i + batch_size]
Batch == PySlice(files, batch_start, batch_start + batch_size)

\* create_all_chunks is not running
ChunkerIdle ==
  /\ file_path = << >>
  /\ content = << >>
  /\ chunk_size = 0
  /\ pc = "idle"
  /\ metadata = NoMetadata
  /\ chunks = << >>
  /\ it_pos = 0
  /\ match = NoMatch
  /\ scan = ScanStart(NoMatch)
  /\ lines = << >>
  /\ current_pos = 0
  /\ chunk_idx = 0

InitIndex ==
  /\ ChunkerIdle
  /\ NoRun
  /\ returned = << >>
  /\ files \in FileLists
  /\ batch_size \in 1..MaxBatchSize
  /\ batch_start = 0
  /\ batch_pos = 0
  /\ all_chunks = << >>
  /\ total_chunks = 0
  /\ collection = {}
  /\ add_calls = << >>
  /\ log = << >>
  /\ pbar = 0
  /\ ipc = "batch"

\* for i in range(0, len(files), batch_size): batch = ...; all_chunks = []
BatchBegin ==
  /\ ipc = "batch"
  /\ batch_start < Len(files)
  /\ all_chunks' = << >>
  /\ batch_pos' = 0
  /\ ipc' = "file"
  /\ UNCHANGED <<chunker, returned, resumable, files, batch_size, batch_start, total_chunks,
                 collection, add_calls, log, pbar>>

\* variant of ProcessFile: a file that cannot be read ends the batch
ProcessFile_FailureEndsBatch ==
  /\ ipc = "file"
  /\ batch_pos < Len(Batch)
  /\ LET f  == Batch[batch_pos + 1]
         cs == process_file(f)
     IN  /\ log' = IF f.readable THEN log
                   ELSE Append(log, [error |-> "processing", file_path |-> f.path])
         /\ all_chunks' = IF cs # << >> THEN all_chunks \o generate_embeddings(cs)
                          ELSE all_chunks
         /\ batch_pos' = IF f.readable THEN batch_pos + 1 ELSE Len(Batch)
  /\ UNCHANGED <<chunker, returned, resumable, files, batch_size, batch_start, total_chunks,
                 collection, add_calls, pbar, ipc>>

\* for file_path in batch: process_file, generate_embeddings, extend
ProcessFile ==
  /\ ipc = "file"
  /\ batch_pos < Len(Batch)
  /\ LET f  == Batch[batch_pos + 1]
         cs == process_file(f)
     IN  /\ log' = IF f.readable THEN log
                   ELSE Append(log, [error |-> "processing", file_path |-> f.path])
         /\ all_chunks' = IF cs # << >> THEN all_chunks \o generate_embeddings(cs)
                          ELSE all_chunks
         /\ batch_pos' = batch_pos + 1
  /\ UNCHANGED <<chunker, returned, resumable, files, batch_size, batch_start, total_chunks,
                 collection, add_calls, pbar, ipc>>

\* if all_chunks: store_chunks, total_chunks += ...; pbar.update(len(batch));
\* collection.add raises or not, store_chunks catches and logs what it raises
EndBatch ==
  /\ ipc = "file"
  /\ batch_pos = Len(Batch)
  /\ IF all_chunks # << >>
     THEN /\ \E raised \in BOOLEAN :
               /\ add_calls' = Append(add_calls, [chunks |-> all_chunks, raised |-> raised])
               /\ collection' = IF raised THEN collection
                                ELSE collection \cup {all_chunks[k] : k \in 1..Len(all_chunks)}
               /\ log' = IF raised
                         THEN Append(log, [error |-> "storing", file_path |-> 0])
                         ELSE log
          /\ total_chunks' = total_chunks + Len(all_chunks)
     ELSE UNCHANGED <<add_calls, collection, log, total_chunks>>
  /\ pbar' = pbar + Len(Batch)
  /\ batch_start' = batch_start + batch_size
  /\ ipc' = "batch"
  /\ UNCHANGED <<chunker, returned, resumable, files, batch_size, batch_pos, all_chunks>>

\* the batch loop is over
Finish ==
  /\ ipc = "batch"
  /\ ~(batch_start < Len(files))
  /\ ipc' = "done"
  /\ UNCHANGED <<chunker, returned, resumable, files, batch_size, batch_start, batch_pos,
                 all_chunks, total_chunks, collection, add_calls, log, pbar>>

NextIndex ==
  \/ BatchBegin
  \/ ProcessFile
  \/ EndBatch
  \/ Finish

SpecIndex == InitIndex /\ [][NextIndex]_vars

(***************************************************************************)
(* Vocabulary of the properties.                                           *)
(***************************************************************************)
Returned == pc = "done"

ChunkIndexes == 1..Len(chunks)

IsFunctionChunk(c) == c.chunk_type \in {"function_preview", "function_full"}

\* every match finditer(FUNCTION_PATTERN) yields on text, first to last
RECURSIVE FunctionMatches(_, _)
FunctionMatches(s, from) ==
  LET m == FUNCTION_PATTERN(s, from)
  IN  IF m.ok THEN << m >> \o FunctionMatches(s, m.end) ELSE << >>

\* the file has neither a class nor a function match
NoStructure(text) ==
  ~FUNCTION_PATTERN(text, 0).ok /\ ~CLASS_PATTERN(text, 0).ok

\* the number of lines of the file, as the window loop counts them
LineCount(text) == Len(Split(text))

\* the stride of the window loop for a window size
Stride(size) == size - 10

\* the window positions of a file of n lines: 0, stride, 2 * stride, ... < n
WindowPositions(n, size) == {w \in 0..(n - 1) : w % Stride(size) = 0}

\* the trimmed length of the window of `size` lines at line w
TrimmedWindowLen(text, w, size) ==
  LET ls == Split(text)
      e  == IF w + size > Len(ls) THEN Len(ls) ELSE w + size
  IN  Len(Strip(Join(SubSeq(ls, w + 1, e), Lit_newline)))

\* the window at line w has non-trivial content (it is not skipped)
NonTrivial(text, w, size) == TrimmedWindowLen(text, w, size) > 50

BlockIndexes == {i \in ChunkIndexes : chunks[i].chunk_type = "code_block"}

CeilDiv(a, b) == (a + b - 1) \div b

(***************************************************************************)
(* C1: create_all_chunks terminates for every positive chunk_size,        *)
(* including chunk_size <= 10: every iteration of the sliding-window loop  *)
(* moves current_pos forward, so it passes the last line and the loop      *)
(* stops.                                                                  *)
(***************************************************************************)
C1_WindowLoopAdvances ==
  [][(pc = "window" /\ pc' = "window") => current_pos' > current_pos]_vars

(***************************************************************************)
(* C2: a function candidate whose captured name is `if` (or for, while,    *)
(* switch, return, else, case, try, catch) never produces a Level-3        *)
(* function_preview chunk nor a Level-4 function_full chunk.               *)
(***************************************************************************)
ControlFlowKeywords ==
  { <<"i","f">>, <<"f","o","r">>, <<"w","h","i","l","e">>,
    <<"s","w","i","t","c","h">>, <<"r","e","t","u","r","n">>,
    <<"e","l","s","e">>, <<"c","a","s","e">>, <<"t","r","y">>,
    <<"c","a","t","c","h">> }

C2_NoKeywordFunctionChunks ==
  \A i \in ChunkIndexes :
    IsFunctionChunk(chunks[i]) =>
      chunks[i].metadata.function_name \notin ControlFlowKeywords

(***************************************************************************)
(* C3: when the text `void run() {\n  doWork();\n}` starts at line 10,     *)
(* the returned list has a function_preview chunk with function_name "run" *)
(* and start_line 10 and a function_full chunk with the same name and      *)
(* start line whose content is the whole function through its closing      *)
(* brace.                                                                  *)
(***************************************************************************)
RunName == <<"r","u","n">>

\* 'void run() {\n  doWork();\n}'
RunText == DropLast(F_run)

\* 'void run() {\n  doWork();\n'
RunPreview == DropLast(RunText)

\* the offsets at which RunText starts line 10 of text
RunAtLine10(text) ==
  {p \in 1..(Len(text) - 1) :
     /\ text[p] = "\n"
     /\ CountNL(text, p) = 10
     /\ StartsWith(text, p, RunText)}

HasFunctionChunk(type, name, line) ==
  \E i \in ChunkIndexes :
    /\ chunks[i].chunk_type = type
    /\ chunks[i].metadata.function_name = name
    /\ chunks[i].start_line = line

HasFunctionChunkWith(type, name, line, text) ==
  \E i \in ChunkIndexes :
    /\ chunks[i].chunk_type = type
    /\ chunks[i].metadata.function_name = name
    /\ chunks[i].start_line = line
    /\ chunks[i].content = text

C3_RunAtLine10_Original ==
  (Returned /\ RunAtLine10(content) # {}) =>
    /\ HasFunctionChunk("function_preview", RunName, 10)
    /\ HasFunctionChunkWith("function_full", RunName, 10, RunText)

\* the signature match of run begins at `void`: nothing before it is
\* absorbed into the match
RunMatchedAtLine10(text) ==
  \E p \in RunAtLine10(text) :
    \E k \in 1..Len(FunctionMatches(text, 0)) :
      FunctionMatches(text, 0)[k].start = p

\* C3 as amended: when the function text starts at line 10 and the
\* signature match begins at its `void`, the list has a function_preview
\* chunk named "run" with start_line 10 whose content is the function up
\* to, not including, its closing brace; and it has no function_full chunk
\* for it, the whole function being 26 characters, under the minimum of 50.
C3_RunAtLine10 ==
  (Returned /\ RunMatchedAtLine10(content)) =>
    /\ HasFunctionChunkWith("function_preview", RunName, 10, RunPreview)
    /\ ~HasFunctionChunk("function_full", RunName, 10)

C3_Witness ==
  /\ Returned
  /\ RunMatchedAtLine10(content)
  /\ HasFunctionChunk("function_preview", RunName, 10)

(***************************************************************************)
(* C4: the ids of the chunks of one file are pairwise distinct, also when  *)
(* the file declares the same class name or the same function name twice.  *)
(***************************************************************************)
C4_IdsDistinct ==
  \A i, j \in ChunkIndexes : i # j => chunks[i].id # chunks[j].id

(***************************************************************************)
(* C5: every brace scan terminates on every text: each iteration that      *)
(* stays in the loop moves the cursor forward by one (the only iteration   *)
(* that does not is the break of the Level-3 scan, which leaves the loop), *)
(* the depth is never negative, and the offset is at most len(text).       *)
(***************************************************************************)
ScanPcs == {"level2_scan", "level3_scan", "level4_scan"}

C5_ScanState ==
  pc \in ScanPcs =>
    /\ scan.brace_count >= 0
    /\ scan.pos <= Len(content)

C5_ScanStep ==
  (pc \in ScanPcs /\ pc' = pc) =>
    \/ scan'.pos = scan.pos + 1
    \/ scan'.broke /\ ~Level3ScanCond(content, scan')

AllWindowsNonTrivial(text, size) ==
  \A w \in WindowPositions(LineCount(text), size) : NonTrivial(text, w, size)

PlainFile(text, size) ==
  /\ size > 10
  /\ NoStructure(text)
  /\ AllWindowsNonTrivial(text, size)

\* the code_block chunks, in list order, as <<start_line, end_line>>
BlockSpans ==
  LET RECURSIVE Spans(_)
      Spans(i) ==
        IF i > Len(chunks) THEN << >>
        ELSE (IF chunks[i].chunk_type = "code_block"
              THEN << <<chunks[i].start_line, chunks[i].end_line>> >>
              ELSE << >>) \o Spans(i + 1)
  IN  Spans(1)

C6_General ==
  (Returned /\ PlainFile(content, chunk_size)) =>
    /\ Cardinality(BlockIndexes) = CeilDiv(LineCount(content), chunk_size - 10)
    /\ \A i \in ChunkIndexes : chunks[i].detail_level \notin {2, 3}
    /\ \A i \in ChunkIndexes : chunks[i].chunk_type # "function_full"

C6_Scenario ==
  (Returned /\ PlainFile(content, chunk_size)
     /\ LineCount(content) = 200 /\ chunk_size = 50) =>
    /\ Len(BlockSpans) = 5
    /\ \A k \in 1..5 : BlockSpans[k][1] = 40 * (k - 1)
    \* lines start_line .. end_line - 1 are the window's lines
    /\ \A k \in 1..4 : BlockSpans[k][2] - BlockSpans[k + 1][1] = 10
    /\ \A l \in 0..199 :
         \E k \in 1..5 : BlockSpans[k][1] <= l /\ l < BlockSpans[k][2]

C6_PlainFileWindows == C6_General /\ C6_Scenario

C6_Witness ==
  /\ Returned
  /\ PlainFile(content, chunk_size)
  /\ LineCount(content) = 200
  /\ chunk_size = 50
  /\ Cardinality(BlockIndexes) = 5

(***************************************************************************)
(* C7: for chunk_size = 50, any two code_block chunks that are consecutive *)
(* in the returned list share a source line: the later one starts before   *)
(* the earlier one ends.                                                   *)
(***************************************************************************)
\* the k with code_block k + 1 next after code_block k in the list
ConsecutiveBlocks == 1..(Len(BlockSpans) - 1)

C7_ConsecutiveBlocksOverlap_Original ==
  (Returned /\ chunk_size = 50) =>
    \A k \in ConsecutiveBlocks : BlockSpans[k + 1][1] < BlockSpans[k][2]

\* a window position strictly between lines a and b whose window is skipped
SkippedBetween(text, a, b, size) ==
  \E w \in WindowPositions(LineCount(text), size) :
    a < w /\ w < b /\ ~NonTrivial(text, w, size)

\* C7 as amended: for chunk_size = 50, two code_block chunks that are
\* consecutive in the returned list share a source line unless a window
\* position between them was skipped for having at most 50 trimmed
\* characters.
C7_ConsecutiveBlocksOverlap ==
  (Returned /\ chunk_size = 50) =>
    \A k \in ConsecutiveBlocks :
      \/ BlockSpans[k + 1][1] < BlockSpans[k][2]
      \/ SkippedBetween(content, BlockSpans[k][1], BlockSpans[k + 1][1], chunk_size)

\* a list with a pair of blocks from adjacent windows and a pair around a
\* skipped window
C7_Witness ==
  /\ Returned
  /\ chunk_size = 50
  /\ \E k \in ConsecutiveBlocks : BlockSpans[k + 1][1] < BlockSpans[k][2]
  /\ \E k \in ConsecutiveBlocks : BlockSpans[k + 1][1] >= BlockSpans[k][2]

(***************************************************************************)
(* C8: for chunk_size = 50, every line of the file lies inside the         *)
(* [start_line, end_line] span of at least one Level-4 chunk.              *)
(***************************************************************************)
CoveredByLevel4(l) ==
  \E i \in ChunkIndexes :
    /\ chunks[i].detail_level = 4
    /\ chunks[i].start_line <= l
    /\ l <= chunks[i].end_line

FileLineNumbers(text) == 0..(LineCount(text) - 1)

C8_Level4Coverage_Original ==
  (Returned /\ chunk_size = 50) =>
    \A l \in FileLineNumbers(content) : CoveredByLevel4(l)

\* the window positions whose window holds line l
WindowsOf(text, l, size) ==
  {w \in WindowPositions(LineCount(text), size) : w <= l /\ l < w + size}

\* C8 as amended: for chunk_size = 50, every line of the file lies inside
\* the span of at least one Level-4 chunk, unless every window that holds
\* the line was skipped for having at most 50 trimmed characters.
C8_Level4Coverage ==
  (Returned /\ chunk_size = 50) =>
    \A l \in FileLineNumbers(content) :
      \/ CoveredByLevel4(l)
      \/ \A w \in WindowsOf(content, l, chunk_size) : ~NonTrivial(content, w, chunk_size)

\* a file with a line inside a kept window and a line only skipped windows
\* hold
C8_Witness ==
  /\ Returned
  /\ chunk_size = 50
  /\ \E l \in FileLineNumbers(content) :
       /\ CoveredByLevel4(l)
       /\ \E w \in WindowsOf(content, l, chunk_size) : NonTrivial(content, w, chunk_size)
  /\ \E l \in FileLineNumbers(content) : ~CoveredByLevel4(l)

(***************************************************************************)
(* C9: the returned list has exactly one chunk of detail_level 0 and at    *)
(* most one of detail_level 1.                                             *)
(***************************************************************************)
LevelCount(level) ==
  Cardinality({i \in ChunkIndexes : chunks[i].detail_level = level})

C9_OneSummaryOneOverview ==
  Returned => LevelCount(0) = 1 /\ LevelCount(1) <= 1

C9_Witness ==
  /\ Returned
  /\ LevelCount(0) = 1
  /\ LevelCount(1) = 1
  /\ LevelCount(2) > 0
  /\ LevelCount(4) > 0

(***************************************************************************)
(* C10: every returned chunk has 0 <= start_line <= end_line.              *)
(***************************************************************************)
C10_MonotonicSpans ==
  Returned =>
    \A i \in ChunkIndexes :
      0 <= chunks[i].start_line /\ chunks[i].start_line <= chunks[i].end_line

\* a returned list with a class and a function chunk off line 0 and a
\* window chunk
C10_Witness ==
  /\ Returned
  /\ \E i \in ChunkIndexes :
       chunks[i].detail_level = 2 /\ 0 < chunks[i].start_line
         /\ chunks[i].start_line < chunks[i].end_line
  /\ \E i \in ChunkIndexes :
       chunks[i].detail_level = 3 /\ 0 < chunks[i].start_line
  /\ \E i \in ChunkIndexes :
       chunks[i].chunk_type = "code_block"
         /\ chunks[i].start_line < chunks[i].end_line

(***************************************************************************)
(* C11: every chunk's start_line and end_line lie within the source file:  *)
(* neither exceeds the index of the file's last line, for every chunk      *)
(* type, file_overview and the last code_block window included.            *)
(***************************************************************************)
\* the index of the last line of the file (the lines are split at "\n")
LastLine(text) == CountNL(text, Len(text))

C11_LinesWithinFile ==
  \A i \in ChunkIndexes :
    /\ chunks[i].start_line <= LastLine(content)
    /\ chunks[i].end_line <= LastLine(content)

(***************************************************************************)
(* C12: in every chunk detail_level and chunk_type are populated and       *)
(* consistent: 0 iff file_summary, 1 iff file_overview, 2 iff              *)
(* class_summary, 3 iff function_preview, 4 iff function_full or           *)
(* code_block; and the detail_level in the chunk's metadata equals the     *)
(* chunk's detail_level.                                                   *)
(***************************************************************************)
ChunkTypes ==
  {"file_summary", "file_overview", "class_summary", "function_preview",
   "function_full", "code_block"}

LevelOfType(type) ==
  CASE type = "file_summary"     -> 0
    [] type = "file_overview"    -> 1
    [] type = "class_summary"    -> 2
    [] type = "function_preview" -> 3
    [] type = "function_full"    -> 4
    [] type = "code_block"       -> 4

C12_LevelMatchesType ==
  \A i \in ChunkIndexes :
    /\ chunks[i].chunk_type \in ChunkTypes
    /\ chunks[i].detail_level \in 0..4
    /\ chunks[i].detail_level = LevelOfType(chunks[i].chunk_type)
    /\ "detail_level" \in DOMAIN chunks[i].metadata
    /\ chunks[i].metadata.detail_level = chunks[i].detail_level

\* a returned list that holds a chunk of each of the six types
C12_Witness ==
  /\ Returned
  /\ \A type \in ChunkTypes : \E i \in ChunkIndexes : chunks[i].chunk_type = type

(***************************************************************************)
(* C13: create_all_chunks is deterministic: two calls with the same        *)
(* (file_path, content, chunk_size) return identical chunk lists, the same *)
(* ids, the same content and the same order; in particular the function    *)
(* chunks of one function name and start line have the same content in     *)
(* both calls.                                                             *)
(***************************************************************************)
\* a later call has returned
ReturnedAgain == Returned /\ Len(returned) > 0

\* the call that returned before this one
Earlier == returned[Len(returned)]

SameArguments ==
  /\ Earlier.file_path = file_path
  /\ Earlier.content = content
  /\ Earlier.chunk_size = chunk_size

WindowIndex(c, size) == c.start_line \div Stride(size)

\* c and d have the same type and the same discriminating key
SameKey(c, d, size) ==
  /\ c.chunk_type = d.chunk_type
  /\ CASE c.chunk_type \in {"file_summary", "file_overview"} -> TRUE
       [] c.chunk_type = "class_summary" ->
            c.metadata.class_name = d.metadata.class_name
       [] IsFunctionChunk(c) ->
            /\ c.metadata.function_name = d.metadata.function_name
            /\ c.start_line = d.start_line
       [] c.chunk_type = "code_block" ->
            WindowIndex(c, size) = WindowIndex(d, size)

C14_IdFromKeyOnly ==
  (ReturnedAgain /\ Earlier.file_path = file_path /\ Earlier.chunk_size = chunk_size) =>
    \A i \in ChunkIndexes : \A j \in 1..Len(Earlier.chunks) :
      SameKey(chunks[i], Earlier.chunks[j], chunk_size) =>
        chunks[i].id = Earlier.chunks[j].id

\* the two calls got different contents, and a chunk of the type with the
\* same key but another content is in both lists
SameKeyOtherContent(type) ==
  \E i \in ChunkIndexes : \E j \in 1..Len(Earlier.chunks) :
    /\ chunks[i].chunk_type = type
    /\ SameKey(chunks[i], Earlier.chunks[j], chunk_size)
    /\ chunks[i].content # Earlier.chunks[j].content

C14_Witness ==
  /\ ReturnedAgain
  /\ Earlier.content # content
  /\ SameKeyOtherContent("file_overview")
  /\ SameKeyOtherContent("function_preview")
  /\ SameKeyOtherContent("function_full")
  /\ SameKeyOtherContent("code_block")
  /\ \E i \in ChunkIndexes : \E j \in 1..Len(Earlier.chunks) :
       /\ chunks[i].chunk_type = "class_summary"
       /\ SameKey(chunks[i], Earlier.chunks[j], chunk_size)

(***************************************************************************)
(* The spans of the function candidates, stated from the text alone.       *)
(***************************************************************************)
\* the offsets from a on at which text has the character c
OffsetsOf(text, a, c) == {k \in a..(Len(text) - 1) : At(text, k) = c}

\* the brace depth after the character at offset p, the depth being 1
\* before offset a
DepthAfter(opens, closes, p) ==
  1 + Cardinality({k \in opens : k <= p}) - Cardinality({k \in closes : k <= p})

\* the offset of the brace that closes the body entered at offset a, or
\* len(text) when no brace closes it
ClosingBrace(text, a) ==
  LET opens   == OffsetsOf(text, a, "{")
      closes  == OffsetsOf(text, a, "}")
      closing == {p \in closes : DepthAfter(opens, closes, p) = 0}
  IN  IF closing = {} THEN Len(text) ELSE Min(closing)

Unclosed(text, a) == ClosingBrace(text, a) = Len(text)

\* the offset right after the n-th newline at or after offset a, or
\* len(text) when there are fewer than n
AfterNewlines(text, a, n) ==
  LET newlines == OffsetsOf(text, a, "\n")
      nth      == {p \in newlines : Cardinality({k \in newlines : k <= p}) = n}
  IN  IF nth = {} THEN Len(text) ELSE Min(nth) + 1

\* a function closes within the lines a preview may take
ClosesInPreview(text, a) ==
  /\ ~Unclosed(text, a)
  /\ ClosingBrace(text, a) < AfterNewlines(text, a, 15)

\* where the preview of the candidate m ends: at its closing brace or after
\* 15 newlines, whichever comes first
PreviewEnd(text, m) ==
  Min({ClosingBrace(text, m.end), AfterNewlines(text, m.end, 15)})

\* where the full text of the candidate m ends: after its closing brace, or
\* at the end of the text
FullEnd(text, m) ==
  IF Unclosed(text, m.end) THEN Len(text) ELSE ClosingBrace(text, m.end) + 1

TrimmedLen(text, a, b) == Len(Strip(Slice(text, a, b)))

\* the function chunks of one type, in list order, as
\* <<function_name, start_line, content>>
FunctionChunks(type) ==
  LET RECURSIVE From(_)
      From(i) ==
        IF i > Len(chunks) THEN << >>
        ELSE (IF chunks[i].chunk_type = type
              THEN << <<chunks[i].metadata.function_name, chunks[i].start_line,
                        chunks[i].content>> >>
              ELSE << >>) \o From(i + 1)
  IN  From(1)

(***************************************************************************)
(* C15: when a function's opening brace is never matched by a closing      *)
(* brace before the end of the text, no error is raised: the Level-4 scan  *)
(* returns the end-of-text offset, and the function_full chunk (if its     *)
(* trimmed content has at least 50 characters) has content running to the  *)
(* end of the text and end_line equal to the file's last line.             *)
(***************************************************************************)
\* the function_full chunk of candidate m runs to the end of the text
FullToEndOfText(text, m) ==
  \E i \in ChunkIndexes :
    /\ chunks[i].chunk_type = "function_full"
    /\ chunks[i].metadata.function_name = m.name
    /\ chunks[i].start_line = CountNL(text, m.start)
    /\ chunks[i].content = Slice(text, m.start, Len(text))
    /\ chunks[i].end_line = LastLine(text)

\* the candidates whose body is never closed and whose text to the end of
\* the file has at least 50 trimmed characters
OpenEnded(text) ==
  {k \in 1..Len(FunctionMatches(text, 0)) :
     LET m == FunctionMatches(text, 0)[k]
     IN  Unclosed(text, m.end) /\ TrimmedLen(text, m.start, Len(text)) >= 50}

C15_OpenBodyRunsToEnd ==
  /\ (pc = "level4_scan" /\ ~Level4ScanCond(content, scan) /\ scan.brace_count > 0)
       => (Unclosed(content, match.end) /\ scan.pos = Len(content))
  /\ Returned =>
       \A k \in OpenEnded(content) :
         FullToEndOfText(content, FunctionMatches(content, 0)[k])

\* a returned list for a file of several lines with an open-ended function
\* followed by more text
C15_Witness ==
  /\ Returned
  /\ LastLine(content) > 3
  /\ \E k \in OpenEnded(content) :
       /\ FunctionMatches(content, 0)[k].start > 0
       /\ k < Len(FunctionMatches(content, 0))
       /\ FullToEndOfText(content, FunctionMatches(content, 0)[k])

(***************************************************************************)
(* C18: the bounded brace scan of the Level-3 previews returns whichever   *)
(* bound occurs first, and when the brace closes before 15 newlines it     *)
(* returns the offset immediately after the closing brace, so the          *)
(* function_preview content of a function that closes within 15 lines      *)
(* ends with (includes) that closing brace.                                *)
(***************************************************************************)
\* the candidates that function_preview chunk c can come from
CandidatesOf(text, c) ==
  {k \in 1..Len(FunctionMatches(text, 0)) :
     /\ FunctionMatches(text, 0)[k].name = c.metadata.function_name
     /\ CountNL(text, FunctionMatches(text, 0)[k].start) = c.start_line}

C18_PreviewIncludesClosingBrace ==
  Returned =>
    \A i \in ChunkIndexes :
      chunks[i].chunk_type = "function_preview" =>
        \A k \in CandidatesOf(content, chunks[i]) :
          LET m == FunctionMatches(content, 0)[k]
          IN  ClosesInPreview(content, m.end) =>
                chunks[i].content = Slice(content, m.start, ClosingBrace(content, m.end) + 1)

(***************************************************************************)
(* C19: a sliding window is skipped exactly when its trimmed content is    *)
(* under 50 characters: every window whose trimmed content has 50 or more  *)
(* characters (exactly 50 included) produces a code_block chunk, and every *)
(* window with fewer produces none.                                        *)
(***************************************************************************)
HasBlockAt(w) ==
  \E i \in ChunkIndexes :
    chunks[i].chunk_type = "code_block" /\ chunks[i].start_line = w

C19_WindowKeptFrom50 ==
  (Returned /\ chunk_size > 10) =>
    \A w \in WindowPositions(LineCount(content), chunk_size) :
      HasBlockAt(w) <=> TrimmedWindowLen(content, w, chunk_size) >= 50

(***************************************************************************)
(* C20: function candidates are dropped silently by the length thresholds  *)
(* of the levels and by nothing else: a candidate yields a Level-3 chunk   *)
(* iff its trimmed preview has at least 20 characters and a Level-4        *)
(* function_full chunk iff its trimmed full text has at least 50           *)
(* characters; dropped candidates raise no error and leave all other       *)
(* chunks of the file unchanged.                                           *)
(***************************************************************************)
\* the candidates with at least 20 trimmed characters up to the end of the
\* preview, first to last, as <<function_name, start_line, content>>
RECURSIVE KeptPreviews(_, _)
KeptPreviews(text, ms) ==
  IF Len(ms) = 0 THEN << >>
  ELSE LET m == Head(ms)
           e == PreviewEnd(text, m)
       IN  (IF TrimmedLen(text, m.start, e) >= 20
            THEN << <<m.name, CountNL(text, m.start), Slice(text, m.start, e)>> >>
            ELSE << >>) \o KeptPreviews(text, Tail(ms))

\* the candidates with at least 50 trimmed characters up to the end of the
\* function, first to last
RECURSIVE KeptFulls(_, _)
KeptFulls(text, ms) ==
  IF Len(ms) = 0 THEN << >>
  ELSE LET m == Head(ms)
           e == FullEnd(text, m)
       IN  (IF TrimmedLen(text, m.start, e) >= 50
            THEN << <<m.name, CountNL(text, m.start), Slice(text, m.start, e)>> >>
            ELSE << >>) \o KeptFulls(text, Tail(ms))

\* the chunks that are not function chunks: the two file chunks, one per
\* class match, one per kept window
OtherChunksUntouched ==
  Cardinality({i \in ChunkIndexes : ~IsFunctionChunk(chunks[i])})
    = 2 + Len(ClassNames(content, 0)) + Cardinality(BlockIndexes)

C20_DroppedByLengthOnly ==
  Returned =>
    /\ FunctionChunks("function_preview")
         = KeptPreviews(content, FunctionMatches(content, 0))
    /\ FunctionChunks("function_full")
         = KeptFulls(content, FunctionMatches(content, 0))
    /\ OtherChunksUntouched

\* a returned list of a file whose candidate has a preview of exactly 20
\* trimmed characters, which is kept, and a full text under 50, which is
\* dropped
C20_Witness ==
  /\ Returned
  /\ Len(FunctionMatches(content, 0)) = 1
  /\ Len(FunctionChunks("function_preview")) = 1
  /\ Len(Strip(FunctionChunks("function_preview")[1][3])) = 20
  /\ Len(FunctionChunks("function_full")) = 0

(***************************************************************************)
(* C17: every Level-2 chunk's metadata class_name is an element of the     *)
(* metadata 'classes' list extracted for the same file; the number of      *)
(* Level-2 chunks equals the length of that list and the i-th Level-2      *)
(* chunk carries the i-th class name (no de-duplication, first-to-last     *)
(* text order).                                                            *)
(***************************************************************************)
\* the class_name of the Level-2 chunks, in list order
Level2Names ==
  LET RECURSIVE From(_)
      From(i) ==
        IF i > Len(chunks) THEN << >>
        ELSE (IF chunks[i].detail_level = 2
              THEN << chunks[i].metadata.class_name >>
              ELSE << >>) \o From(i + 1)
  IN  From(1)

Elements(s) == {s[k] : k \in 1..Len(s)}

C17_Level2NamesAreClasses ==
  /\ \A i \in ChunkIndexes :
       chunks[i].detail_level = 2 =>
         /\ chunks[i].metadata.classes = metadata.classes
         /\ chunks[i].metadata.class_name \in Elements(chunks[i].metadata.classes)
  /\ Returned => Level2Names = metadata.classes

\* a returned list for a file that declares one class name twice
C17_Witness ==
  /\ Returned
  /\ Len(Level2Names) >= 2
  /\ \E k \in 1..(Len(Level2Names) - 1) : Level2Names[k] = Level2Names[k + 1]

(***************************************************************************)
(* C16: in run_full_index a failure while processing one file never aborts *)
(* the batch: the failing file is logged and contributes zero chunks, and  *)
(* every other file of the same batch and of all later batches is still    *)
(* processed, embedded and stored (handed to collection.add with its       *)
(* batch, and in the collection when that call did not raise).             *)
(***************************************************************************)
IndexDone == ipc = "done"

\* the chunks of file k in a sequence of chunks
ChunksOfFile(cs, k) == {cs[j] : j \in {j \in 1..Len(cs) : cs[j].file_path = k}}

\* the failure of file k was logged with its path
FailureLogged(k) ==
  \E e \in 1..Len(log) : log[e].error = "processing" /\ log[e].file_path = k

\* file k gave no chunk to any call of collection.add nor to the collection
NothingFrom(k) ==
  /\ \A a \in 1..Len(add_calls) : ChunksOfFile(add_calls[a].chunks, k) = {}
  /\ \A c \in collection : c.file_path # k

\* all chunks of file k went, embedded, into one call of collection.add,
\* and are in the collection if that call did not raise
EmbeddedAndStored(k) ==
  \E a \in 1..Len(add_calls) :
    /\ Cardinality(ChunksOfFile(add_calls[a].chunks, k)) = files[k].length
    /\ \A c \in ChunksOfFile(add_calls[a].chunks, k) : c.embedding
    /\ ~add_calls[a].raised =>
         Cardinality({c \in collection : c.file_path = k}) = files[k].length

CandidateNames(ms) == [k \in 1..Len(ms) |-> ms[k].name]

\* every candidate is above the minimum of both function levels
AllAboveThresholds(text, ms) ==
  \A k \in 1..Len(ms) :
    /\ TrimmedLen(text, ms[k].start, PreviewEnd(text, ms[k])) >= 20
    /\ TrimmedLen(text, ms[k].start, FullEnd(text, ms[k])) >= 50

\* the k-th function chunk of the list cs is the chunk of the k-th candidate
OnePerCandidate(text, ms, cs) ==
  /\ Len(cs) = Len(ms)
  /\ \A k \in 1..Len(cs) :
       /\ cs[k][1] = ms[k].name
       /\ cs[k][2] = CountNL(text, ms[k].start)

C21_ChunksBeyondListedFunctions ==
  Returned =>
    LET ms == FunctionMatches(content, 0)
    IN  /\ Len(metadata.functions) <= 20
        /\ metadata.functions = Take(CandidateNames(ms), 20)
        /\ AllAboveThresholds(content, ms) =>
             /\ OnePerCandidate(content, ms, FunctionChunks("function_preview"))
             /\ OnePerCandidate(content, ms, FunctionChunks("function_full"))

\* a returned list for a file of more than 20 candidates, all above the
\* minimum lengths
C21_Witness ==
  /\ Returned
  /\ Len(metadata.functions) = 20
  /\ Len(FunctionChunks("function_preview")) > 20
  /\ AllAboveThresholds(content, FunctionMatches(content, 0))
  /\ Len(FunctionChunks("function_full")) > 20

(***************************************************************************)
(* C22: the per-file metadata computed once by extract_metadata is never   *)
(* mutated by any level chunker: after create_level0_chunk ..              *)
(* create_level4_chunks have run, the metadata mapping (its keys and the   *)
(* classes, functions, namespaces and includes lists) is unchanged, and    *)
(* each chunk carries its own mapping extended with level-specific keys.   *)
(***************************************************************************)
MetadataKeys == DOMAIN NoMetadata

\* the keys a chunk adds to the metadata of the file
LevelKeys(c) ==
  CASE c.chunk_type = "class_summary" -> {"detail_level", "class_name"}
    [] IsFunctionChunk(c)             -> {"detail_level", "function_name"}
    [] OTHER                          -> {"detail_level"}

\* the mapping of chunk c is the mapping md and the keys of its level
ExtendsMetadata(c, md) ==
  /\ DOMAIN c.metadata = MetadataKeys \cup LevelKeys(c)
  /\ \A key \in MetadataKeys : c.metadata[key] = md[key]

\* the metadata has its keys, it is what extract_metadata returned when the
\* first level chunker is entered, and every chunk so far extends it
MetadataIntact ==
  pc \notin {"extract_metadata", "idle"} =>
    /\ DOMAIN metadata = MetadataKeys
    /\ pc = "level0" => metadata = extract_metadata(file_path, content)
    /\ \A i \in ChunkIndexes : ExtendsMetadata(chunks[i], metadata)

\* no step of a level chunker changes the metadata
MetadataKept == pc # "extract_metadata" => metadata' = metadata

C22_MetadataNeverMutated == [][MetadataIntact /\ MetadataKept]_vars

\* a returned list with class and function chunks for a file with
\* classes, functions, namespaces and includes
C22_Witness ==
  /\ Returned
  /\ \A i \in ChunkIndexes : ExtendsMetadata(chunks[i], metadata)
  /\ Len(metadata.classes) > 0 /\ Len(metadata.functions) > 0
  /\ Len(metadata.namespaces) > 0 /\ Len(metadata.includes) > 0
  /\ \E i \in ChunkIndexes : chunks[i].chunk_type = "class_summary"
  /\ \E i \in ChunkIndexes : chunks[i].chunk_type = "function_full"

(***************************************************************************)
(* C23: for every class/struct match the Level-2 scan stops at the first   *)
(* of: brace closure (the span then includes the closing brace), 20        *)
(* newlines after the opening brace, or end of text; the class_summary     *)
(* content has at most 20 lines, and the only lines of the span's first 20 *)
(* lines that are left out are blank lines and lines starting with `//`    *)
(* (after their indentation) that contain no brace and no access           *)
(* specifier.                                                              *)
(***************************************************************************)
\* every match finditer(CLASS_PATTERN) yields on text, first to last
RECURSIVE ClassMatches(_, _)
ClassMatches(s, from) ==
  LET m == CLASS_PATTERN(s, from)
  IN  IF m.ok THEN << m >> \o ClassMatches(s, m.end) ELSE << >>

\* where the span of the class match m ends
SummaryEnd(text, m) ==
  Min({FullEnd(text, m), AfterNewlines(text, m.end, 20)})

HasBraceOrSpecifier(line) ==
  \E k \in 1..Len(line) :
    \/ line[k] \in {"{", "}"}
    \/ \E word \in {Lit_public_colon, Lit_private_colon, Lit_protected_colon} :
         StartsWith(line, k - 1, word)

\* the line is blank, or a `//` comment, and has no brace and no specifier
LeftOut(line) ==
  /\ ~HasBraceOrSpecifier(line)
  /\ \/ \A k \in 1..Len(line) : line[k] \in Space
     \/ \E k \in 1..(Len(line) - 1) :
          /\ line[k] = "/" /\ line[k + 1] = "/"
          /\ \A j \in 1..(k - 1) : line[j] \in Space

\* the lines of ls that are not left out, in order
RECURSIVE NotLeftOut(_)
NotLeftOut(ls) ==
  IF Len(ls) = 0 THEN << >>
  ELSE (IF LeftOut(Head(ls)) THEN << >> ELSE << Head(ls) >>) \o NotLeftOut(Tail(ls))

\* the Level-2 chunks, in list order
Level2Chunks ==
  LET RECURSIVE From(_)
      From(i) ==
        IF i > Len(chunks) THEN << >>
        ELSE (IF chunks[i].detail_level = 2 THEN << chunks[i] >> ELSE << >>)
               \o From(i + 1)
  IN  From(1)

ChunksOfType(type) ==
  LET RECURSIVE From(_)
      From(i) ==
        IF i > Len(chunks) THEN << >>
        ELSE (IF chunks[i].chunk_type = type THEN << chunks[i] >> ELSE << >>)
               \o From(i + 1)
  IN  From(1)

IsPrefix(s, t) == Len(s) <= Len(t) /\ s = SubSeq(t, 1, Len(s))

YieldsPreview(text, m) == TrimmedLen(text, m.start, PreviewEnd(text, m)) >= 20

YieldsFull(text, m) == TrimmedLen(text, m.start, FullEnd(text, m)) >= 50

\* for each candidate, whether it yields a preview, and a full chunk
PreviewYields(text, ms) == [k \in 1..Len(ms) |-> YieldsPreview(text, ms[k])]

FullYields(text, ms) == [k \in 1..Len(ms) |-> YieldsFull(text, ms[k])]

\* the place of candidate k among the candidates that yield (ys)
Rank(ys, k) == Cardinality({j \in 1..k : ys[j]})

C24_PreviewIsPrefixOfFull ==
  Returned =>
    LET ms == FunctionMatches(content, 0)
        yp == PreviewYields(content, ms)
        yf == FullYields(content, ms)
        ps == ChunksOfType("function_preview")
        fs == ChunksOfType("function_full")
    IN  \A k \in 1..Len(ms) :
          (yp[k] /\ yf[k]) =>
            LET p == ps[Rank(yp, k)]
                f == fs[Rank(yf, k)]
            IN  /\ p.metadata.function_name = ms[k].name
                /\ p.metadata.function_name = f.metadata.function_name
                /\ p.start_line = f.start_line
                /\ IsPrefix(p.content, f.content)
                /\ p.end_line <= f.end_line

\* a returned list with a function of more than 15 lines, whose preview
\* ends lines before the function, after a candidate that yields no full
\* chunk
C24_Witness ==
  /\ Returned
  /\ LET ms == FunctionMatches(content, 0)
         yp == PreviewYields(content, ms)
         yf == FullYields(content, ms)
         ps == ChunksOfType("function_preview")
         fs == ChunksOfType("function_full")
     IN  \E k \in 1..Len(ms) :
           /\ yp[k] /\ yf[k]
           /\ Rank(yf, k) < k
           /\ ps[Rank(yp, k)].end_line < fs[Rank(yf, k)].end_line
           /\ Len(ps[Rank(yp, k)].content) < Len(fs[Rank(yf, k)].content)

(***************************************************************************)
(* C25: the returned chunk list is ordered by non-decreasing detail_level  *)
(* (Level 0, then Level 1, then all Level 2, then all Level 3, then all    *)
(* Level 4); within Level 4 every function_full chunk precedes every       *)
(* code_block chunk; and within each of Level 2, Level 3, function_full    *)
(* and code_block the chunks appear in non-decreasing start_line order.    *)
(***************************************************************************)
\* the place of a chunk type in the returned list
TypeOrder(type) ==
  CASE type = "file_summary"     -> 0
    [] type = "file_overview"    -> 1
    [] type = "class_summary"    -> 2
    [] type = "function_preview" -> 3
    [] type = "function_full"    -> 4
    [] type = "code_block"       -> 5

C25_OrderedByLevelAndLine ==
  Returned =>
    \A i, j \in ChunkIndexes :
      i < j =>
        /\ chunks[i].detail_level <= chunks[j].detail_level
        /\ TypeOrder(chunks[i].chunk_type) <= TypeOrder(chunks[j].chunk_type)
        /\ chunks[i].chunk_type = chunks[j].chunk_type =>
             chunks[i].start_line <= chunks[j].start_line

\* a returned list with chunks of all six types and two chunks on
\* different lines for classes, previews and full functions
TwoOnDifferentLines(type) ==
  \E i, j \in ChunkIndexes :
    /\ chunks[i].chunk_type = type
    /\ chunks[j].chunk_type = type
    /\ chunks[i].start_line < chunks[j].start_line

C25_Witness ==
  /\ Returned
  /\ TwoOnDifferentLines("class_summary")
  /\ TwoOnDifferentLines("function_preview")
  /\ TwoOnDifferentLines("function_full")
  /\ \E i \in ChunkIndexes : chunks[i].chunk_type = "code_block"

(***************************************************************************)
(* C26: the window index hashed into a code_block id counts every window   *)
(* position, skipped or not: for chunk_size > 10 a code_block chunk with   *)
(* start_line s always has window index s / (chunk_size - 10), so skipping *)
(* an earlier near-empty window does not change the ids of later windows,  *)
(* and each code_block spans at most chunk_size lines (end_line -          *)
(* start_line <= chunk_size).                                              *)
(***************************************************************************)
C26_WindowIndexCountsPositions ==
  (Returned /\ chunk_size > 10) =>
    \A i \in BlockIndexes :
      /\ chunks[i].start_line % Stride(chunk_size) = 0
      /\ chunks[i].id
           = ChunkId(BlockKey(file_path, chunks[i].start_line \div Stride(chunk_size)), << >>)
      /\ chunks[i].end_line - chunks[i].start_line <= chunk_size

\* a returned list with a window chunk after a window that was skipped
C26_Witness ==
  /\ Returned
  /\ chunk_size > 10
  /\ \E i \in BlockIndexes :
       /\ chunks[i].end_line - chunks[i].start_line = chunk_size
       /\ \E w \in WindowPositions(LineCount(content), chunk_size) :
            /\ w < chunks[i].start_line
            /\ ~HasBlockAt(w)


(***************************************************************************)
(* The keys of two files.  process_file is called on one file after the    *)
(* other (run_full_index, for file_path in batch); each file declares one  *)
(* struct and one function of the same name, and the paths are two files   *)
(* without extension in one directory.                                     *)
(***************************************************************************)
\* 'struct '
F_struct_kw ==
  <<"s","t","r","u","c","t"," ">>

\* ' {\n  int x;\n};\nint '
F_struct_body ==
  <<" ","{","\n"," "," ","i","n","t"," ","x",";","\n","}",";","\n","i","n",
    "t"," ">>

\* '(int a) {\n  a = a + 1;\n  return a * 2 + 100;\n}\n'
F_fn_body ==
  <<"(","i","n","t"," ","a",")"," ","{","\n"," "," ","a"," ","="," ","a",
    " ","+"," ","1",";","\n"," "," ","r","e","t","u","r","n"," ","a"," ",
    "*"," ","2"," ","+"," ","1","0","0",";","\n","}","\n">>

\* 'src/a'
F_path_a ==
  <<"s","r","c","/","a">>

\* 'src/a_b'
F_path_a_b ==
  <<"s","r","c","/","a","_","b">>

\* 'c'
F_name_c ==
  <<"c">>

\* 'b_c'
F_name_b_c ==
  <<"b","_","c">>

KeyNames == {F_name_c, F_name_b_c}

KeyPaths == {F_path_a, F_path_a_b}

\* 'struct <name> {\n  int x;\n};\nint <name>(int a) {\n ... }\n'
KeyFile(name) == F_struct_kw \o name \o F_struct_body \o name \o F_fn_body

KeyFiles == {KeyFile(name) : name \in KeyNames}

InitTwoFiles ==
  /\ returned = << >>
  /\ IndexerIdle
  /\ NoRun
  /\ file_path \in KeyPaths
  /\ content \in KeyFiles
  /\ chunk_size = DefaultChunkSize
  /\ Entered

\* the call has returned and the caller goes on to the next file
CallOther ==
  /\ pc = "done"
  /\ Len(returned) + 1 < MaxCalls
  /\ returned' = Append(returned, [file_path |-> file_path, content |-> content,
                                   chunk_size |-> chunk_size, chunks |-> chunks])
  /\ file_path' \in KeyPaths
  /\ content' \in KeyFiles
  /\ pc' = "extract_metadata"
  /\ metadata' = NoMetadata
  /\ chunks' = << >>
  /\ it_pos' = 0
  /\ match' = NoMatch
  /\ scan' = ScanStart(NoMatch)
  /\ lines' = << >>
  /\ current_pos' = 0
  /\ chunk_idx' = 0
  /\ UNCHANGED <<chunk_size, indexer, resumable>>

NextTwoFiles ==
  \/ Next
  \/ CallOther

SpecTwoFiles == InitTwoFiles /\ [][NextTwoFiles]_vars

\* the chunks of the calls so far
ChunksSoFar ==
  Elements(chunks) \cup UNION { Elements(returned[k].chunks) : k \in 1..Len(returned) }

\* the string that was hashed into the id of c
KeyOf(c) == c.id.md5.digest_of

\* what the key of c is composed of, besides the level
ComponentsOf(c) ==
  IF c.chunk_type = "class_summary"
  THEN <<c.file_path, c.metadata.class_name>>
  ELSE <<c.file_path, c.metadata.function_name, c.start_line>>

KeyedByName(c) ==
  c.chunk_type \in {"class_summary", "function_preview", "function_full"}

\* C27: two chunks of one level whose (file_path, class_name), or whose
\* (file_path, function_name, start_line), differ were hashed from different
\* key strings, whatever files they come from.
C27_KeyInjective ==
  \A c, d \in ChunksSoFar :
    (KeyedByName(c) /\ c.chunk_type = d.chunk_type /\ ComponentsOf(c) # ComponentsOf(d))
      => KeyOf(c) # KeyOf(d)

\* the same for the chunks of one file_path
KeyInjectiveInFile ==
  \A c, d \in ChunksSoFar :
    (KeyedByName(c) /\ c.chunk_type = d.chunk_type /\ c.file_path = d.file_path
       /\ ComponentsOf(c) # ComponentsOf(d))
      => KeyOf(c) # KeyOf(d)


\* the chunks the first n calls of collection.add were given, taken together
RECURSIVE HandedOver(_)
HandedOver(n) ==
  IF n = 0 THEN 0 ELSE HandedOver(n - 1) + Len(add_calls[n].chunks)

\* the chunks of the first n calls of collection.add that did not raise
RECURSIVE Added(_)
Added(n) ==
  IF n = 0 THEN 0
  ELSE Added(n - 1) + (IF add_calls[n].raised THEN 0 ELSE Len(add_calls[n].chunks))

\* C28: after any sequence of batches total_chunks, the number the run
\* reports at its end, is the number of chunks that were added to the
\* collection, also when collection.add raised for a batch.
C28_TotalCountsAdded ==
  /\ total_chunks = Added(Len(add_calls))
  /\ total_chunks = Cardinality(collection)

\* total_chunks counts what store_chunks was given
TotalCountsHandedOver == total_chunks = HandedOver(Len(add_calls))


(***************************************************************************)
(* CadlibIndexer.run_initial_index: the files of the scan are processed in *)
(* batches and every checkpoint_interval-th batch saves a checkpoint; a    *)
(* run ends by completing, by the exception store_in_vectordb re-raises,   *)
(* or by being interrupted, and a later run may resume from the            *)
(* checkpoint.  The directory and the config stay the same between runs.   *)
(***************************************************************************)
\* the calls of run_initial_index
MaxRuns == 3

\* the largest config['checkpoint_interval']
MaxInterval == 2

SourceLists == { fs \in FileLists : \A k \in 1..Len(fs) : fs[k].length = 2 }

\* process_batch: the embedded chunks of the files of the batch
RECURSIVE process_batch(_)
process_batch(batch) ==
  IF batch = << >> THEN << >>
  ELSE generate_embeddings(process_file(Head(batch))) \o process_batch(Tail(batch))

\* what process_file logs for the files of the batch
RECURSIVE ProcessingErrors(_)
ProcessingErrors(batch) ==
  IF batch = << >> THEN << >>
  ELSE (IF Head(batch).readable THEN << >>
        ELSE << [error |-> "processing", file_path |-> Head(batch).path] >>)
         \o ProcessingErrors(Tail(batch))

InitCheckpoint ==
  /\ ChunkerIdle
  /\ returned = << >>
  /\ source \in SourceLists
  /\ config \in [enable_checkpoints : BOOLEAN, checkpoint_interval : 1..MaxInterval]
  /\ checkpoint = NoCheckpoint
  /\ start_idx = 0
  /\ processed = << >>
  /\ runs = 0
  /\ files = << >>
  /\ batch_size \in 1..MaxBatchSize
  /\ batch_start = 0
  /\ batch_pos = 0
  /\ all_chunks = << >>
  /\ total_chunks = 0
  /\ collection = {}
  /\ add_calls = << >>
  /\ log = << >>
  /\ pbar = 0
  /\ ipc = "idle"

\* run_initial_index up to the batch loop: the checkpoint is loaded if there
\* is one and the answer is y; files = files[start_idx:]
RunBegin ==
  /\ ipc \in {"idle", "stopped", "done"}
  /\ runs < MaxRuns
  /\ \E response \in BOOLEAN :
       LET resume == config.enable_checkpoints /\ checkpoint.exists /\ response
           start  == IF resume THEN checkpoint.processed_files ELSE 0
       IN  /\ start_idx' = start
           /\ total_chunks' = IF resume THEN checkpoint.total_chunks ELSE 0
           /\ files' = PySlice(source, start, Len(source))
           /\ pbar' = start
  /\ batch_start' = 0
  /\ runs' = runs + 1
  /\ ipc' = "batch"
  /\ UNCHANGED <<chunker, returned, source, config, checkpoint, processed, batch_size,
                 batch_pos, all_chunks, collection, add_calls, log>>

\* chunks_processed = self.process_batch(batch); total_chunks += ...;
\* what collection.add raises, store_in_vectordb logs and raises again
ProcessBatch ==
  /\ ipc = "batch"
  /\ batch_start < Len(files)
  /\ LET cs == process_batch(Batch)
     IN  \E raised \in BOOLEAN :
           /\ raised => cs # << >>
           /\ add_calls' = IF cs # << >>
                           THEN Append(add_calls, [chunks |-> cs, raised |-> raised])
                           ELSE add_calls
           /\ IF raised
              THEN /\ log' = log \o ProcessingErrors(Batch)
                                 \o << [error |-> "storing", file_path |-> 0] >>
                   /\ ipc' = "stopped"
                   /\ UNCHANGED <<collection, total_chunks, pbar, processed>>
              ELSE /\ log' = log \o ProcessingErrors(Batch)
                   /\ collection' = collection \cup {cs[k] : k \in 1..Len(cs)}
                   /\ total_chunks' = total_chunks + Len(cs)
                   /\ pbar' = pbar + Len(Batch)
                   /\ processed' = processed \o [k \in 1..Len(Batch) |-> Batch[k].path]
                   /\ ipc' = "checkpoint"
  /\ UNCHANGED <<chunker, returned, source, config, checkpoint, start_idx, runs, files,
                 batch_size, batch_start, batch_pos, all_chunks>>

\* if enable_checkpoints and (i // batch_size) % checkpoint_interval == 0:
\* save_checkpoint; then the next i
SaveCheckpoint ==
  /\ ipc = "checkpoint"
  /\ checkpoint' =
       IF /\ config.enable_checkpoints
          /\ (batch_start \div batch_size) % config.checkpoint_interval = 0
       THEN [exists          |-> TRUE,
             processed_files |-> start_idx + batch_start + Len(Batch),
             total_chunks    |-> total_chunks]
       ELSE checkpoint
  /\ batch_start' = batch_start + batch_size
  /\ ipc' = "batch"
  /\ UNCHANGED <<chunker, returned, source, config, start_idx, processed, runs, files,
                 batch_size, batch_pos, all_chunks, total_chunks, collection, add_calls,
                 log, pbar>>

\* the batch loop is over and the statistics are logged
Complete ==
  /\ ipc = "batch"
  /\ ~(batch_start < Len(files))
  /\ ipc' = "done"
  /\ UNCHANGED <<chunker, returned, resumable, files, batch_size, batch_start, batch_pos,
                 all_chunks, total_chunks, collection, add_calls, log, pbar>>

\* the run is interrupted between two steps of the loop
Interrupt ==
  /\ ipc \in {"batch", "checkpoint"}
  /\ ipc' = "stopped"
  /\ UNCHANGED <<chunker, returned, resumable, files, batch_size, batch_start, batch_pos,
                 all_chunks, total_chunks, collection, add_calls, log, pbar>>

NextCheckpoint ==
  \/ RunBegin
  \/ ProcessBatch
  \/ SaveCheckpoint
  \/ Complete
  \/ Interrupt

SpecCheckpoint == InitCheckpoint /\ [][NextCheckpoint]_vars

\* the first n files of the scan have all been processed, by this run or an
\* earlier one
FirstProcessed(n) == \A k \in 1..n : \E j \in 1..Len(processed) : processed[j] = k

\* a checkpoint that is saved holds the place in the scan of the last file of
\* the batch just processed, and every file up to it has been processed
CheckpointCountsProcessed ==
  checkpoint' # checkpoint =>
    /\ checkpoint'.exists
    /\ processed' # << >>
    /\ processed'[Len(processed')] = checkpoint'.processed_files
    /\ FirstProcessed(checkpoint'.processed_files)

\* the files a run leaves out are files that have been processed, and the
\* rest of the scan is what the run works on
ResumeSkipsNothing ==
  /\ FirstProcessed(checkpoint.processed_files)
  /\ ipc \in {"batch", "checkpoint", "done"} =>
       /\ FirstProcessed(start_idx)
       /\ Len(files) = Len(source) - start_idx
       /\ \A j \in 1..Len(files) : files[j].path = start_idx + j

\* the first run has completed, with checkpoints enabled and files to index
CompletedUninterrupted ==
  /\ ipc = "done"
  /\ runs = 1
  /\ config.enable_checkpoints
  /\ Len(source) > 0

CompleteRunCheckpointsAll ==
  CompletedUninterrupted =>
    /\ checkpoint.exists
    /\ checkpoint.processed_files = Len(source)

\* C29: every checkpoint that is saved holds the number of files, in scan
\* order, whose batch has been processed and stored, also after resumes; a
\* run resumed from it skips no file that was not yet processed; and a run
\* that completes without interruption leaves a checkpoint whose
\* processed_files is the number of files of the scan.
C29_CheckpointTracksProgress ==
  /\ [][CheckpointCountsProcessed]_vars
  /\ []ResumeSkipsNothing
  /\ []CompleteRunCheckpointsAll

\* the first two parts of the statement on their own
CheckpointNeverAhead ==
  /\ [][CheckpointCountsProcessed]_vars
  /\ []ResumeSkipsNothing

=============================================================================
